---- MODULE Spec2Model ----
(***************************************************************************)
(* Job ledger, admission control, scheduler submission, lifecycle poller   *)
(* and the cancel / hide / soft-delete request handlers of the bioportal   *)
(* job system (jobs/, console/, api/, slurm.py).                           *)
(*                                                                         *)
(* Time is counted in minutes.  Every request handler that loads a Job row *)
(* and later saves it is split at the load, so that other writers can run  *)
(* between the load and the save as they can in the deployed system (web   *)
(* workers, the poll_jobs command and the admin console are separate       *)
(* processes over one database).                                           *)
(***************************************************************************)
EXTENDS Integers, FiniteSets, Sequences, TLC

(* ------------------------------ bounds -------------------------------- *)

\* number of clock advances explored
MaxTicks == 2

\* minutes added to the clock by one advance
TickMinutes == 45

\* the job ids (uuid4 values) that submissions may draw
JobIds == {"j1", "j2"}

\* accounts: alice is an ordinary user, root has is_staff set
Users == {"alice", "root"}

(* --------------------------- program constants ------------------------ *)

\* poll_jobs.STALE_JOB_TIMEOUT = timedelta(hours=1), in minutes
STALE_JOB_TIMEOUT == 60

\* jobs.services.MAX_SEQUENCE_CHARS
MAX_SEQUENCE_CHARS == 200000

\* minutes in a day: check_quota truncates now to midnight
DayMinutes == 1440

\* settings.DEFAULT_MAX_CONCURRENT_JOBS / _QUEUED_JOBS / _JOBS_PER_DAY
DEFAULT_MAX_CONCURRENT_JOBS == 1
DEFAULT_MAX_QUEUED_JOBS == 5
DEFAULT_JOBS_PER_DAY == 10

\* a DateTimeField holding NULL
None == -1

(* ------------------------------ Job model ----------------------------- *)

PENDING == "PENDING"
RUNNING == "RUNNING"
COMPLETED == "COMPLETED"
FAILED == "FAILED"
UNKNOWN == "UNKNOWN"

\* Job.Status
Status == {PENDING, RUNNING, COMPLETED, FAILED}

\* the statuses the poller and the cancel paths treat as active
Active == {PENDING, RUNNING}

\* the statuses with no further transition
Terminal == {COMPLETED, FAILED}

\* the values slurm.check_status can return
CheckStatusResults == {PENDING, RUNNING, COMPLETED, FAILED, UNKNOWN}

\* a ledger slot that holds no row
NoJob ==
    [exists |-> FALSE, owner |-> "", status |-> PENDING, slurm_job_id |-> "",
     error_message |-> "", created_at |-> None, submitted_at |-> None,
     completed_at |-> None, hidden_from_owner |-> FALSE]

\* the row Job.objects.create inserts: status PENDING, every other field default
NewJob(owner, t) ==
    [exists |-> TRUE, owner |-> owner, status |-> PENDING, slurm_job_id |-> "",
     error_message |-> "", created_at |-> t, submitted_at |-> None,
     completed_at |-> None, hidden_from_owner |-> FALSE]

\* the scheduler id slurm.submit returns for the job with uuid j
SlurmIdOf(j) == "S-" \o j

\* User.is_staff
IsStaff(u) == u = "root"

(* ------------------------------ messages ------------------------------ *)

MsgMaintenance == "System is under maintenance. Please try again later."
MsgRunnerDisabled == "Runner is disabled: This runner is temporarily unavailable."
MsgAccountDisabled == "Your account has been disabled: Account is disabled"
MsgMaxConcurrent == "You have reached the maximum number of concurrent jobs"
MsgMaxQueued == "You have reached the maximum number of queued jobs"
MsgPerDay == "You have reached the maximum number of jobs per day"
MsgNoInput == "No input provided."
MsgTooLarge == "Sequences too large"
MsgRunnerValidation == "runner validation errors"
MsgStale == "Job not found in SLURM. It may have failed before being scheduled, or SLURM lost track of it."
MsgCancelUser == "Cancelled by user"
MsgCancelApi == "Cancelled by user via API"
MsgCancelConsole == "Cancelled by admin (root)"
MsgCancelAdmin == "Cancelled by admin"
MsgCancelHidden == "Cancelled and hidden by admin (root)"
MsgBuildError == "build_script raised"
MsgSubmitError == "sbatch failed"
MsgWorkdirError == "prepare_workdir raised"

\* the reasons the cancel paths record
CancelMsgs == {MsgCancelUser, MsgCancelApi, MsgCancelConsole, MsgCancelAdmin, MsgCancelHidden}

VARIABLES
    now,          \* timezone.now(), minutes
    jobs,         \* the Job table: JobIds -> row
    workdir,      \* the filesystem job tree: JobIds -> what {base}/{id} holds
    maintenance,  \* SiteSettings.maintenance_mode
    runnerCfg,    \* the RunnerConfig row of the runner: "absent", "enabled", "disabled"
    quota,        \* the UserQuota rows: Users -> record
    pool,         \* the job ids of the create_and_submit_job calls still to arrive
    sub,          \* the create_and_submit_job calls, one per job id
    poll,         \* the running poll_jobs command
    req,          \* the cancel / hide / delete request being served
    scancelled,   \* JobIds for which slurm.cancel has been invoked
    submitCalls,  \* JobIds -> number of slurm.submit invocations
    lastSeen,     \* JobIds -> time check_status last reported PENDING or RUNNING
    siteRows,     \* the primary keys of the SiteSettings rows
    retention,    \* UserQuota.retention_days: Users -> days, None without a row
    extra,        \* the entries of the job root that no submission made
    sweep,        \* the running cleanup_jobs call
    scan,         \* the running orphan scan
    fake,         \* the simulated scheduler: clock, marker files, last answer
    live,         \* the live scheduler query being answered
    runnerRes,    \* the resource fields of the RunnerConfig row
    script,       \* the directives of the script build_script last rendered
    ret,          \* what the console's cancel_job last returned
    sched         \* what the scheduler holds of each job: JobIds -> state

\* the state only the housekeeping and scheduler-query operations touch
houseVars == <<retention, extra, sweep, scan, fake, live>>

\* the runner resources, the rendered script, the console's return value and
\* the scheduler's own record
lateVars == <<runnerRes, script, ret, sched>>

auxVars == <<houseVars, lateVars>>

vars == <<now, jobs, workdir, maintenance, runnerCfg, quota, pool, sub, poll, req,
          scancelled, submitCalls, lastSeen, siteRows, auxVars>>

(* --------------------------- submitted inputs ------------------------- *)

\* A submitted sequence text is pad whitespace characters around body other
\* characters; files / params say whether input_payload carries any; invalid
\* says whether runner.validate returns errors for it.
NoInput == [pad |-> 0, body |-> 0, files |-> FALSE, params |-> FALSE, invalid |-> FALSE]

Inputs ==
    { NoInput,
      [pad |-> 2, body |-> 0, files |-> FALSE, params |-> FALSE, invalid |-> FALSE],
      [pad |-> 1, body |-> 3, files |-> FALSE, params |-> FALSE, invalid |-> FALSE],
      [pad |-> 0, body |-> MAX_SEQUENCE_CHARS + 1, files |-> FALSE, params |-> FALSE, invalid |-> FALSE],
      [pad |-> 0, body |-> 0, files |-> TRUE, params |-> FALSE, invalid |-> FALSE],
      [pad |-> 0, body |-> 3, files |-> FALSE, params |-> TRUE, invalid |-> TRUE] }

\* len((sequences or "").strip())
StrippedLen(inp) == inp.body

\* len of the text as submitted
RawLen(inp) == inp.pad + inp.body

(* ----------------------- the SiteSettings table ----------------------- *)

\* the primary key SiteSettings.save forces
SettingsPk == 1

\* the largest primary key the table's sequence hands out
MaxPk == 3

\* the key the database gives a row inserted without one
AutoPk(rows) ==
    CHOOSE k \in 1..MaxPk :
        /\ k \notin rows \/ k = MaxPk
        /\ \A m \in 1..(k - 1) : m \in rows

\* SiteSettings.save that leaves the instance's own key alone
SiteSettings_save_KeepsPk(rows, pk) ==
    rows \cup {IF pk = None THEN AutoPk(rows) ELSE pk}

\* SiteSettings.save: self.pk = 1, then the row with that key is written
SiteSettings_save(rows, pk) == rows \cup {SettingsPk}

\* SiteSettings.get_settings: get_or_create(pk=1), the table afterwards
get_settings(rows) ==
    IF SettingsPk \in rows THEN rows ELSE SiteSettings_save(rows, SettingsPk)

(* ------------------------- admission control -------------------------- *)

OK == "OK"

\* check_maintenance_mode
check_maintenance_mode == IF maintenance THEN MsgMaintenance ELSE OK

\* check_runner_enabled: a missing RunnerConfig row counts as enabled
check_runner_enabled == IF runnerCfg = "disabled" THEN MsgRunnerDisabled ELSE OK

\* Job.objects.filter(owner=user, status=s).count()
CountStatus(u, s) ==
    Cardinality({j \in JobIds : jobs[j].exists /\ jobs[j].owner = u /\ jobs[j].status = s})

\* timezone.now().replace(hour=0, minute=0, second=0, microsecond=0)
TodayStart(t) == (t \div DayMinutes) * DayMinutes

\* Job.objects.filter(owner=user, created_at__gte=today_start).count()
JobsToday(u) ==
    Cardinality({j \in JobIds : jobs[j].exists /\ jobs[j].owner = u
                                  /\ jobs[j].created_at >= TodayStart(now)})

\* is_quota_exempt that exempts nobody
is_quota_exempt_Nobody(u) == FALSE

\* is_quota_exempt: staff accounts are not subject to quota
is_quota_exempt(u) == IsStaff(u)

\* check_quota with the running-count test moved above the disabled test
check_quota_CountsFirst(u) ==
    IF is_quota_exempt(u) THEN OK
    ELSE IF CountStatus(u, RUNNING) >= quota[u].max_concurrent_jobs THEN MsgMaxConcurrent
    ELSE IF quota[u].is_disabled THEN MsgAccountDisabled
    ELSE IF CountStatus(u, PENDING) >= quota[u].max_queued_jobs THEN MsgMaxQueued
    ELSE IF JobsToday(u) >= quota[u].jobs_per_day THEN MsgPerDay
    ELSE OK

\* check_quota: the message of the first failing check, OK when admitted
check_quota(u) ==
    IF is_quota_exempt(u) THEN OK
    ELSE IF quota[u].is_disabled THEN MsgAccountDisabled
    ELSE IF CountStatus(u, RUNNING) >= quota[u].max_concurrent_jobs THEN MsgMaxConcurrent
    ELSE IF CountStatus(u, PENDING) >= quota[u].max_queued_jobs THEN MsgMaxQueued
    ELSE IF JobsToday(u) >= quota[u].jobs_per_day THEN MsgPerDay
    ELSE OK

\* check_input testing the text as submitted, before it is stripped
check_input_Unstripped(inp) ==
    IF RawLen(inp) = 0 /\ ~inp.files /\ ~inp.params THEN MsgNoInput
    ELSE IF StrippedLen(inp) > MAX_SEQUENCE_CHARS THEN MsgTooLarge
    ELSE IF inp.invalid THEN MsgRunnerValidation
    ELSE OK

\* the input checks of create_and_submit_job, lines 75-87
check_input(inp) ==
    IF StrippedLen(inp) = 0 /\ ~inp.files /\ ~inp.params THEN MsgNoInput
    ELSE IF StrippedLen(inp) > MAX_SEQUENCE_CHARS THEN MsgTooLarge
    ELSE IF inp.invalid THEN MsgRunnerValidation
    ELSE OK

\* the ValidationError create_and_submit_job raises before creating a row,
\* OK when it goes on to Job.objects.create
Admission(u, inp) ==
    IF check_maintenance_mode # OK THEN check_maintenance_mode
    ELSE IF check_runner_enabled # OK THEN check_runner_enabled
    ELSE IF check_quota(u) # OK THEN check_quota(u)
    ELSE check_input(inp)

(* ----------------------- the RunnerConfig resources ------------------- *)

\* the field defaults of RunnerConfig: the values get_or_create fills in
DefaultResources ==
    [partition |-> "", gpus |-> 0, cpus |-> 1, mem_gb |-> 8, time_limit |-> ""]

\* str() of the small non-negative integers the resource fields take
str(n) == <<"0", "1", "2", "3", "4", "5", "6", "7", "8", "9">>[n + 1]

\* the texts int() parses, with their values; int() raises ValueError on any other
IntOf == ("0" :> 0) @@ ("1" :> 1) @@ ("2" :> 2) @@ ("8" :> 8) @@ ("-1" :> 0 - 1)

\* str.strip() of a posted text field: the blank text strips to the empty one
strip_text(s) == IF s = " " THEN "" ELSE s

\* get_slurm_directives with the cpus directive emitted from one cpu on
get_slurm_directives_CpusFromOne(cfg) ==
    (IF cfg.partition # "" THEN <<"#SBATCH --partition=" \o cfg.partition>> ELSE <<>>)
    \o (IF cfg.gpus # 0 THEN <<"#SBATCH --gres=gpu:" \o str(cfg.gpus)>> ELSE <<>>)
    \o (IF cfg.cpus >= 1 THEN <<"#SBATCH --cpus-per-task=" \o str(cfg.cpus)>> ELSE <<>>)
    \o (IF cfg.mem_gb # 0 THEN <<"#SBATCH --mem=" \o str(cfg.mem_gb) \o "G">> ELSE <<>>)
    \o (IF cfg.time_limit # "" THEN <<"#SBATCH --time=" \o cfg.time_limit>> ELSE <<>>)

\* RunnerConfig.get_slurm_directives: the lines it joins with "\n", in order
get_slurm_directives(cfg) ==
    (IF cfg.partition # "" THEN <<"#SBATCH --partition=" \o cfg.partition>> ELSE <<>>)
    \o (IF cfg.gpus # 0 THEN <<"#SBATCH --gres=gpu:" \o str(cfg.gpus)>> ELSE <<>>)
    \o (IF cfg.cpus > 1 THEN <<"#SBATCH --cpus-per-task=" \o str(cfg.cpus)>> ELSE <<>>)
    \o (IF cfg.mem_gb # 0 THEN <<"#SBATCH --mem=" \o str(cfg.mem_gb) \o "G">> ELSE <<>>)
    \o (IF cfg.time_limit # "" THEN <<"#SBATCH --time=" \o cfg.time_limit>> ELSE <<>>)

\* get_config that hands build_script no configuration when the row is missing
get_config_NoRow(state, res) ==
    IF state = "absent"
    THEN [partition |-> "", gpus |-> 0, cpus |-> 0, mem_gb |-> 0, time_limit |-> ""]
    ELSE res

\* RunnerConfig.get_config: get_or_create returns the stored row, or creates
\* one from the field defaults
get_config(state, res) == IF state = "absent" THEN DefaultResources ELSE res

\* no script rendered yet
NoScript == [built |-> FALSE, directives |-> <<>>]

\* build_script: config.get_slurm_directives() of the row get_config returned
build_script(state, res) ==
    [built |-> TRUE, directives |-> get_slurm_directives(get_config(state, res))]

(* ------------------------------- workdir ------------------------------ *)

\* no directory {base}/{id}
NoDir == [made |-> FALSE, fasta |-> <<>>, files |-> FALSE, sbatch |-> FALSE]

\* prepare_workdir writing the stripped text
prepare_workdir_Stripped(inp) ==
    [made |-> TRUE,
     fasta |-> IF StrippedLen(inp) > 0 THEN <<0, inp.body>> ELSE <<>>,
     files |-> inp.files,
     sbatch |-> FALSE]

\* BaseModelType.prepare_workdir: input/ and output/, sequences.fasta with
\* the payload's text when that is non-empty, and every uploaded file
prepare_workdir(inp) ==
    [made |-> TRUE,
     fasta |-> IF RawLen(inp) > 0 THEN <<inp.pad, inp.body>> ELSE <<>>,
     files |-> inp.files,
     sbatch |-> FALSE]

(* ----------------------- create_and_submit_job ------------------------ *)

NoSub == [pc |-> "new", owner |-> "", inp |-> NoInput, error |-> ""]

\* the job id the next call's Job.objects.create would draw: ids are used in
\* order, j1 before j2
NextId(j) == j \in pool /\ (j = "j2" => "j1" \notin pool)

\* SubmitCheck with Job.objects.create moved above the input checks
SubmitCheck_CreatesFirst(j, u, inp) ==
    /\ NextId(j)
    /\ pool' = pool \ {j}
    /\ LET m == Admission(u, inp) IN
         /\ sub' = [sub EXCEPT ![j] =
                      IF m = OK
                      THEN [pc |-> "admitted", owner |-> u, inp |-> inp, error |-> ""]
                      ELSE [pc |-> "raised", owner |-> u, inp |-> inp, error |-> m]]
         /\ jobs' = IF m \in {OK, MsgNoInput, MsgTooLarge, MsgRunnerValidation}
                    THEN [jobs EXCEPT ![j] = NewJob(u, now)]
                    ELSE jobs
    /\ siteRows' = get_settings(siteRows)
    /\ UNCHANGED <<auxVars, now, workdir, maintenance, runnerCfg, quota, poll, req,
                   scancelled, submitCalls, lastSeen>>

\* lines 60-87: admission and input checks; raises the first failure
SubmitCheck(j, u, inp) ==
    /\ NextId(j)
    /\ pool' = pool \ {j}
    /\ LET m == Admission(u, inp) IN
         sub' = [sub EXCEPT ![j] =
                    IF m = OK
                    THEN [pc |-> "admitted", owner |-> u, inp |-> inp, error |-> ""]
                    ELSE [pc |-> "raised", owner |-> u, inp |-> inp, error |-> m]]
    /\ siteRows' = get_settings(siteRows)
    /\ UNCHANGED <<auxVars, now, jobs, workdir, maintenance, runnerCfg, quota, poll, req,
                   scancelled, submitCalls, lastSeen>>

\* lines 92-105: Job.objects.create, then model_type.prepare_workdir, which
\* may raise (filesystem error) after the row exists
SubmitCreate(j) ==
    /\ sub[j].pc = "admitted"
    /\ jobs' = [jobs EXCEPT ![j] = NewJob(sub[j].owner, now)]
    /\ \E fsok \in BOOLEAN :
         IF fsok
         THEN /\ workdir' = [workdir EXCEPT ![j] = prepare_workdir(sub[j].inp)]
              /\ sub' = [sub EXCEPT ![j].pc = "created", ![j].inp = NoInput]
         ELSE /\ workdir' = workdir
              /\ sub' = [sub EXCEPT ![j].pc = "raised", ![j].inp = NoInput,
                                    ![j].error = MsgWorkdirError]
    /\ UNCHANGED <<auxVars, siteRows, now, maintenance, runnerCfg, quota, pool, poll, req,
                   scancelled, submitCalls, lastSeen>>

\* SaveSubmitted without the submitted_at assignment
SaveSubmitted_NoTimestamp(row, j, t) ==
    [row EXCEPT !.slurm_job_id = SlurmIdOf(j)]

\* lines 110-112: save(update_fields=["slurm_job_id", "submitted_at"])
SaveSubmitted(row, j, t) ==
    [row EXCEPT !.slurm_job_id = SlurmIdOf(j), !.submitted_at = t]

\* SaveSubmitFailed with completed_at left out of the handler
SaveSubmitFailed_NoCompletedAt(row, msg, t) ==
    [row EXCEPT !.status = FAILED, !.error_message = msg]

\* lines 115-118: save(update_fields=["status", "error_message", "completed_at"])
SaveSubmitFailed(row, msg, t) ==
    [row EXCEPT !.status = FAILED, !.error_message = msg, !.completed_at = t]

\* SubmitInvocations when a failed sbatch is tried a second time
SubmitInvocations_Retry(outcome) ==
    IF outcome = "build_raises" THEN 0 ELSE IF outcome = "submit_raises" THEN 2 ELSE 1

\* the number of slurm.submit calls the try block makes for each outcome
SubmitInvocations(outcome) == IF outcome = "build_raises" THEN 0 ELSE 1

\* lines 107-119: get_config, build_script, slurm.submit, save.  outcome is
\* what build_script and sbatch do: both depend on the cluster, on the
\* filesystem and on Job.host_workdir, so each of them may return or raise.
\* slurm.submit writes job.sbatch into the workdir before it calls sbatch.
SubmitFinish(j, outcome) ==
    /\ sub[j].pc = "created"
    /\ runnerCfg' = IF runnerCfg = "absent" THEN "enabled" ELSE runnerCfg
    /\ submitCalls' = [submitCalls EXCEPT ![j] = @ + SubmitInvocations(outcome)]
    /\ workdir' = IF outcome = "build_raises" THEN workdir
                  ELSE [workdir EXCEPT ![j].made = TRUE, ![j].sbatch = TRUE]
    /\ IF outcome = "ok"
       THEN /\ jobs' = [jobs EXCEPT ![j] = SaveSubmitted(@, j, now)]
            /\ sub' = [sub EXCEPT ![j].pc = "returned"]
       ELSE LET msg == IF outcome = "build_raises" THEN MsgBuildError ELSE MsgSubmitError IN
            /\ jobs' = [jobs EXCEPT ![j] = SaveSubmitFailed(@, msg, now)]
            /\ sub' = [sub EXCEPT ![j].pc = "raised", ![j].error = msg]
    /\ script' = IF outcome = "build_raises" THEN script
                 ELSE build_script(runnerCfg, runnerRes)
    /\ runnerRes' = get_config(runnerCfg, runnerRes)
    /\ UNCHANGED <<houseVars, ret, sched, siteRows, now, maintenance, quota, pool, poll, req,
                   scancelled, lastSeen>>

SubmitOutcomes == {"ok", "build_raises", "submit_raises"}

(* ------------------------------ poll_jobs ----------------------------- *)

\* a job the poller's queryset did not return
NoRow == [loaded |-> FALSE, status |-> "", slurm_job_id |-> "",
          submitted_at |-> None, completed_at |-> None]

\* the fields .only("id", "status", "slurm_job_id", "submitted_at", "completed_at") loads
LoadedRow(row) ==
    [loaded |-> TRUE, status |-> row.status, slurm_job_id |-> row.slurm_job_id,
     submitted_at |-> row.submitted_at, completed_at |-> row.completed_at]

\* the queryset without .exclude(slurm_job_id="")
PollerSelects_AnyActive(row) ==
    row.exists /\ row.status \in Active

\* filter(status__in=[PENDING, RUNNING]).exclude(slurm_job_id="")
PollerSelects(row) ==
    row.exists /\ row.status \in Active /\ row.slurm_job_id # ""

PollIdle == [pc |-> "idle", now |-> 0, rows |-> [j \in JobIds |-> NoRow]]

\* lines 19-25: the queryset is evaluated and now is taken once per run; a
\* run that finds no active job returns without a write
PollStart ==
    /\ poll.pc = "idle"
    /\ \E j \in JobIds : PollerSelects(jobs[j])
    /\ poll' = [pc |-> "iter", now |-> now,
                rows |-> [j \in JobIds |->
                            IF PollerSelects(jobs[j]) THEN LoadedRow(jobs[j]) ELSE NoRow]]
    /\ UNCHANGED <<auxVars, siteRows, now, jobs, workdir, maintenance, runnerCfg, quota, pool, sub, req,
                   scancelled, submitCalls, lastSeen>>

\* the staleness test never succeeding
IsStale_Never(loaded, t) == FALSE

\* line 32: the staleness test, on the loaded submitted_at and the run's now
IsStale(loaded, t) ==
    loaded.submitted_at # None /\ (t - loaded.submitted_at) > STALE_JOB_TIMEOUT

\* PollSave without the completed_at assignment of lines 51-52
PollSave_NoCompletedAt(row, loaded, r, t) ==
    IF r = UNKNOWN
    THEN IF IsStale(loaded, t)
         THEN [row EXCEPT !.status = FAILED, !.error_message = MsgStale, !.completed_at = t]
         ELSE row
    ELSE IF r = loaded.status
    THEN row
    ELSE [row EXCEPT !.status = r, !.completed_at = loaded.completed_at]

\* lines 28-55 for one loaded job: what the run saves to the stored row when
\* check_status returned r.  The loaded instance is modified and saved with
\* update_fields, so the fields named there are overwritten with the
\* instance's values and the others are left as stored.
PollSave(row, loaded, r, t) ==
    IF r = UNKNOWN
    THEN IF IsStale(loaded, t)
         THEN [row EXCEPT !.status = FAILED, !.error_message = MsgStale, !.completed_at = t]
         ELSE row
    ELSE IF r = loaded.status
    THEN row
    ELSE [row EXCEPT !.status = r,
                     !.completed_at = IF r \in Terminal THEN t ELSE loaded.completed_at]

\* one iteration of the loop over the queryset, r being check_status's answer
PollStep(j, r) ==
    /\ poll.pc = "iter"
    /\ poll.rows[j].loaded
    /\ jobs' = [jobs EXCEPT ![j] = PollSave(@, poll.rows[j], r, poll.now)]
    /\ lastSeen' = IF r \in Active THEN [lastSeen EXCEPT ![j] = now] ELSE lastSeen
    /\ LET rest == [poll.rows EXCEPT ![j] = NoRow] IN
         poll' = IF \E k \in JobIds : rest[k].loaded
                 THEN [poll EXCEPT !.rows = rest]
                 ELSE PollIdle
    /\ UNCHANGED <<auxVars, siteRows, now, workdir, maintenance, runnerCfg, quota, pool, sub, req,
                   scancelled, submitCalls>>

(* ------------------- cancel, hide and soft-delete --------------------- *)

NoReq == [kind |-> "none", job |-> "j1", row |-> NoJob]

\* the request kinds whose view loads through _job_queryset_for(request.user)
OwnerKinds == {"job_cancel", "api_job_cancel", "job_delete"}

\* the request kinds of the admin console and the Django admin
AdminKinds == {"cancel_job", "cancel_jobs", "hide_job_from_owner"}

\* get_object_or_404 / queryset.iterator(): the handler gets its own copy of
\* the row; the owner's views do not see rows hidden from the owner
ReqLoad(kind, j) ==
    /\ req.kind = "none"
    /\ jobs[j].exists
    /\ kind \in OwnerKinds => ~jobs[j].hidden_from_owner
    /\ req' = [kind |-> kind, job |-> j, row |-> jobs[j]]
    /\ UNCHANGED <<auxVars, siteRows, now, jobs, workdir, maintenance, runnerCfg, quota, pool, sub, poll,
                   scancelled, submitCalls, lastSeen>>

\* the test every cancel path but the API's makes on its copy of the row
Cancellable(loaded) == loaded.status \in Active /\ loaded.slurm_job_id # ""

\* save(update_fields=["status", "error_message", "completed_at"]) of a cancel
CancelSave(row, msg, t) ==
    [row EXCEPT !.status = FAILED, !.error_message = msg, !.completed_at = t]

\* the cancel paths that test Cancellable: jobs.views.job_cancel,
\* console.services.jobs.cancel_job and JobAdmin.cancel_jobs
GuardedCancel(kind, msg) ==
    /\ req.kind = kind
    /\ IF Cancellable(req.row)
       THEN /\ scancelled' = scancelled \cup {req.job}
            /\ jobs' = [jobs EXCEPT ![req.job] = CancelSave(@, msg, now)]
       ELSE UNCHANGED <<scancelled, jobs>>
    /\ req' = NoReq
    /\ UNCHANGED <<auxVars, siteRows, now, workdir, maintenance, runnerCfg, quota, pool, sub, poll,
                   submitCalls, lastSeen>>

\* jobs/views.py job_cancel
job_cancel == GuardedCancel("job_cancel", MsgCancelUser)

\* console/services/jobs.py cancel_job
cancel_job == GuardedCancel("cancel_job", MsgCancelConsole)

\* no console cancel_job call has returned
NoReturn == [job |-> "", value |-> FALSE, cancels |-> 0, count |-> 0]

\* cancel_job returning True whenever the job is active
cancel_job_result_IgnoresId(loaded) ==
    IF loaded.status \notin {PENDING, RUNNING} THEN FALSE
    ELSE TRUE

\* console/services/jobs.py cancel_job, lines 17-21 and 32: what it returns
cancel_job_result(loaded) ==
    IF loaded.status \notin {PENDING, RUNNING} THEN FALSE
    ELSE IF loaded.slurm_job_id = "" THEN FALSE
    ELSE TRUE

\* console/services/jobs.py bulk_cancel_jobs, for one job of the queryset:
\* cancel_job on the instance the iterator yielded, with its two early
\* returns, then slurm.cancel and the save; ret keeps what cancel_job
\* returned, the slurm.cancel calls it made and cancelled_count
bulk_cancel_jobs ==
    /\ req.kind = "bulk_cancel_jobs"
    /\ IF req.row.status \notin {PENDING, RUNNING} \/ req.row.slurm_job_id = ""
       THEN UNCHANGED <<scancelled, jobs>>
       ELSE /\ scancelled' = scancelled \cup {req.job}
            /\ jobs' = [jobs EXCEPT ![req.job] = CancelSave(@, MsgCancelConsole, now)]
    /\ ret' = [job |-> req.job, value |-> cancel_job_result(req.row),
               cancels |-> IF req.row.status \notin {PENDING, RUNNING} \/ req.row.slurm_job_id = ""
                           THEN 0 ELSE 1,
               count |-> IF cancel_job_result(req.row) THEN 1 ELSE 0]
    /\ req' = NoReq
    /\ UNCHANGED <<houseVars, runnerRes, script, sched, siteRows, now, workdir, maintenance,
                   runnerCfg, quota, pool, sub, poll, submitCalls, lastSeen>>

\* jobs/admin.py JobAdmin.cancel_jobs, for one job of the queryset
cancel_jobs == GuardedCancel("cancel_jobs", MsgCancelAdmin)

\* api/views.py job_cancel: refuses a job that is not active, calls scancel
\* only when there is a scheduler id, and marks the job FAILED either way
api_job_cancel ==
    /\ req.kind = "api_job_cancel"
    /\ IF req.row.status \in Active
       THEN /\ scancelled' = IF req.row.slurm_job_id # "" THEN scancelled \cup {req.job}
                             ELSE scancelled
            /\ jobs' = [jobs EXCEPT ![req.job] = CancelSave(@, MsgCancelApi, now)]
       ELSE UNCHANGED <<scancelled, jobs>>
    /\ req' = NoReq
    /\ UNCHANGED <<auxVars, siteRows, now, workdir, maintenance, runnerCfg, quota, pool, sub, poll,
                   submitCalls, lastSeen>>

\* hide_job_from_owner lines 70-77: the instance after the optional cancel is
\* saved with update_fields hidden_from_owner, status, error_message and
\* completed_at, so these four are overwritten with the instance's values
HideSave(row, loaded, t) ==
    LET inst == IF Cancellable(loaded) THEN CancelSave(loaded, MsgCancelHidden, t) ELSE loaded IN
    [row EXCEPT !.hidden_from_owner = TRUE, !.status = inst.status,
                !.error_message = inst.error_message, !.completed_at = inst.completed_at]

\* console/services/jobs.py hide_job_from_owner
hide_job_from_owner ==
    /\ req.kind = "hide_job_from_owner"
    /\ IF req.row.hidden_from_owner
       THEN UNCHANGED <<scancelled, jobs>>
       ELSE /\ scancelled' = IF Cancellable(req.row) THEN scancelled \cup {req.job}
                             ELSE scancelled
            /\ jobs' = [jobs EXCEPT ![req.job] = HideSave(@, req.row, now)]
    /\ req' = NoReq
    /\ UNCHANGED <<auxVars, siteRows, now, workdir, maintenance, runnerCfg, quota, pool, sub, poll,
                   submitCalls, lastSeen>>

\* jobs/views.py job_delete and the DELETE branch of api/views.py job_detail:
\* scancel for a pending job, then save(update_fields=["hidden_from_owner"])
job_delete ==
    /\ req.kind = "job_delete"
    /\ scancelled' = IF req.row.status = PENDING /\ req.row.slurm_job_id # ""
                     THEN scancelled \cup {req.job} ELSE scancelled
    /\ jobs' = [jobs EXCEPT ![req.job].hidden_from_owner = TRUE]
    /\ req' = NoReq
    /\ UNCHANGED <<auxVars, siteRows, now, workdir, maintenance, runnerCfg, quota, pool, sub, poll,
                   submitCalls, lastSeen>>

(* --------------------------- administration --------------------------- *)

\* console/views/settings.py toggle_maintenance
toggle_maintenance ==
    /\ maintenance' = ~maintenance
    /\ siteRows' = SiteSettings_save(get_settings(siteRows), SettingsPk)
    /\ UNCHANGED <<auxVars, now, jobs, workdir, runnerCfg, quota, pool, sub, poll, req,
                   scancelled, submitCalls, lastSeen>>

\* SiteSettings(maintenance_mode=m).save(): a freshly constructed instance,
\* which has no primary key yet, is saved
save_fresh_settings(m) ==
    /\ maintenance' = m
    /\ siteRows' = SiteSettings_save(siteRows, None)
    /\ UNCHANGED <<auxVars, now, jobs, workdir, runnerCfg, quota, pool, sub, poll, req,
                   scancelled, submitCalls, lastSeen>>

\* console/views/settings.py settings_page: get_config creates the missing row
settings_page ==
    /\ runnerCfg = "absent"
    /\ runnerCfg' = "enabled"
    /\ runnerRes' = get_config(runnerCfg, runnerRes)
    /\ siteRows' = get_settings(siteRows)
    /\ UNCHANGED <<houseVars, script, ret, sched, now, jobs, workdir, maintenance, quota, pool, sub, poll, req,
                   scancelled, submitCalls, lastSeen>>

\* console/views/settings.py toggle_runner: 404 when the row is missing
toggle_runner ==
    /\ runnerCfg # "absent"
    /\ runnerCfg' = IF runnerCfg = "enabled" THEN "disabled" ELSE "enabled"
    /\ UNCHANGED <<auxVars, siteRows, now, jobs, workdir, maintenance, quota, pool, sub, poll, req,
                   scancelled, submitCalls, lastSeen>>

\* the form fields an administrator posts to update_runner_config
PartitionPosted == {"", " ", "gpu"}
TimeLimitPosted == {"", "08:00:00"}
GpusPosted == {"", "1", "-1"}
CpusPosted == {"", "0", "2", "x"}
MemPosted == {"", "0"}

RunnerPosts ==
    [partition : PartitionPosted, time_limit : TimeLimitPosted, gpus : GpusPosted,
     cpus : CpusPosted, mem_gb : MemPosted]

\* lines 152-163: whether a posted numeric field adds an error
NumericError(raw) == raw # "" /\ (raw \notin DOMAIN IntOf \/ IntOf[raw] < 0)

\* lines 152-163: the value a posted numeric field sets, its default when blank
NumericValue(raw, default) == IF raw = "" THEN default ELSE IntOf[raw]

\* console/views/settings.py update_runner_config: 404 when the row is
\* missing; nothing is saved when a numeric field is rejected
update_runner_config(post) ==
    /\ runnerCfg # "absent"
    /\ runnerRes' =
         IF NumericError(post.gpus) \/ NumericError(post.cpus) \/ NumericError(post.mem_gb)
         THEN runnerRes
         ELSE [partition |-> strip_text(post.partition),
               time_limit |-> strip_text(post.time_limit),
               gpus |-> NumericValue(post.gpus, DefaultResources.gpus),
               cpus |-> NumericValue(post.cpus, DefaultResources.cpus),
               mem_gb |-> NumericValue(post.mem_gb, DefaultResources.mem_gb)]
    /\ UNCHANGED <<now, jobs, workdir, maintenance, runnerCfg, quota, pool, sub, poll,
                   req, scancelled, submitCalls, lastSeen, siteRows, houseVars,
                   script, ret, sched>>

\* the wall clock advances
Tick ==
    /\ now + TickMinutes <= MaxTicks * TickMinutes
    /\ now' = now + TickMinutes
    /\ UNCHANGED <<auxVars, siteRows, jobs, workdir, maintenance, runnerCfg, quota, pool, sub, poll, req,
                   scancelled, submitCalls, lastSeen>>

(* ----------------------- the simulated scheduler ---------------------- *)

\* slurm.py check_status, fake mode: seconds of PENDING, then of RUNNING
FAKE_PENDING_SECONDS == 5
FAKE_RUNNING_SECONDS == 15

\* the last second of the simulated clock
MaxFakeClock == 18

\* no answer given yet
NoAnswer == [at |-> None, status |-> ""]

\* the job's directory before slurm.submit: no marker files
FakeIdle ==
    [clock |-> 0, started_at |-> None, canceled |-> FALSE, results |-> FALSE,
     answer |-> NoAnswer]

\* check_status, fake mode, with the cancel marker looked at after the clock
fake_check_status_MarkerLast(f) ==
    IF f.started_at = None THEN IF f.canceled THEN FAILED ELSE UNKNOWN
    ELSE LET elapsed == f.clock - f.started_at IN
         IF elapsed < FAKE_PENDING_SECONDS THEN PENDING
         ELSE IF elapsed < FAKE_RUNNING_SECONDS THEN RUNNING
         ELSE IF f.canceled THEN FAILED
         ELSE COMPLETED

\* check_status, fake mode (lines 77-105): the status for the marker files f
fake_check_status(f) ==
    IF f.canceled THEN FAILED
    ELSE IF f.started_at = None THEN UNKNOWN
    ELSE LET elapsed == f.clock - f.started_at IN
         IF elapsed < FAKE_PENDING_SECONDS THEN PENDING
         ELSE IF elapsed < FAKE_RUNNING_SECONDS THEN RUNNING
         ELSE COMPLETED

\* slurm.submit, fake mode: writes .fake_slurm_started_at with time.time()
FakeSubmit ==
    /\ fake.started_at = None
    /\ fake' = [fake EXCEPT !.started_at = fake.clock]
    /\ UNCHANGED <<now, jobs, workdir, maintenance, runnerCfg, quota, pool, sub, poll,
                   req, scancelled, submitCalls, lastSeen, siteRows, lateVars,
                   retention, extra, sweep, scan, live>>

\* slurm.cancel, fake mode: writes .fake_slurm_canceled
FakeCancel ==
    /\ fake' = [fake EXCEPT !.canceled = TRUE]
    /\ UNCHANGED <<now, jobs, workdir, maintenance, runnerCfg, quota, pool, sub, poll,
                   req, scancelled, submitCalls, lastSeen, siteRows, lateVars,
                   retention, extra, sweep, scan, live>>

\* slurm.check_status, fake mode: answers, and writes output/results.txt
\* before answering COMPLETED
FakeCheck ==
    /\ LET r == fake_check_status(fake) IN
         fake' = [fake EXCEPT !.answer = [at |-> fake.clock, status |-> r],
                              !.results = fake.results \/ r = COMPLETED]
    /\ UNCHANGED <<now, jobs, workdir, maintenance, runnerCfg, quota, pool, sub, poll,
                   req, scancelled, submitCalls, lastSeen, siteRows, lateVars,
                   retention, extra, sweep, scan, live>>

\* a second of time.time() passes
FakeTick ==
    /\ fake.clock < MaxFakeClock
    /\ fake' = [fake EXCEPT !.clock = fake.clock + 1]
    /\ UNCHANGED <<now, jobs, workdir, maintenance, runnerCfg, quota, pool, sub, poll,
                   req, scancelled, submitCalls, lastSeen, siteRows, lateVars,
                   retention, extra, sweep, scan, live>>

(* ------------------------- the live scheduler ------------------------- *)

\* the characters of a command's output: a state word is one character
SP == " "
NL == "\n"
PLUS == "+"

\* the state words squeue and sacct print, one of them unknown to check_status
StateWords ==
    {"PENDING", "CONFIGURING", "RUNNING", "COMPLETING", "SUSPENDED", "COMPLETED",
     "CANCELLED", "FAILED", "TIMEOUT", "NODE_FAIL", "OUT_OF_MEMORY", "PREEMPTED",
     "REQUEUED"}

OutputChars == StateWords \cup {SP, NL, PLUS}

\* the longest output a command prints, in characters
MaxOutLen == 3

\* the outputs a command may print
Outputs == UNION {[1..n -> OutputChars] : n \in 0..MaxOutLen}

\* the return codes of a command
ReturnCodes == {0, 1}

IsSpace(c) == c \in {SP, NL}

\* the text before the first character of stops
RECURSIVE TakeUntil(_, _)
TakeUntil(s, stops) ==
    IF s = <<>> \/ Head(s) \in stops THEN <<>>
    ELSE <<Head(s)>> \o TakeUntil(Tail(s), stops)

\* str.lstrip, str.rstrip, str.strip
RECURSIVE lstrip(_)
lstrip(s) == IF s # <<>> /\ IsSpace(Head(s)) THEN lstrip(Tail(s)) ELSE s

RECURSIVE rstrip(_)
rstrip(s) ==
    IF s # <<>> /\ IsSpace(s[Len(s)]) THEN rstrip(SubSeq(s, 1, Len(s) - 1)) ELSE s

strip(s) == rstrip(lstrip(s))

\* str.splitlines
RECURSIVE splitlines(_)
splitlines(s) ==
    IF s = <<>> THEN <<>>
    ELSE LET first == TakeUntil(s, {NL}) IN
         <<first>> \o splitlines(SubSeq(s, Len(first) + 2, Len(s)))

\* [ln.strip() for ln in stdout.splitlines() if ln.strip()]
RECURSIVE StrippedLines(_)
StrippedLines(ls) ==
    IF ls = <<>> THEN <<>>
    ELSE IF strip(Head(ls)) = <<>> THEN StrippedLines(Tail(ls))
    ELSE <<strip(Head(ls))>> \o StrippedLines(Tail(ls))

\* lines 112-120: the status for a non-empty squeue state
ActiveStatus(state) ==
    IF state \in {<<"PENDING">>, <<"CONFIGURING">>} THEN PENDING
    ELSE IF state \in {<<"RUNNING">>, <<"COMPLETING">>, <<"SUSPENDED">>} THEN RUNNING
    ELSE RUNNING

\* lines 135-136: lines[0].split()[0].split("+")[0]
RawState(lines) == TakeUntil(TakeUntil(lines[1], {SP, NL}), {PLUS})

\* the sacct branch with UNKNOWN as the answer for a state it does not know
HistoricalStatus_DefaultUnknown(rc, out) ==
    IF rc # 0 THEN UNKNOWN
    ELSE LET lines == StrippedLines(splitlines(out)) IN
         IF lines = <<>> THEN UNKNOWN
         ELSE LET raw_state == RawState(lines) IN
              IF raw_state = <<"COMPLETED">> THEN COMPLETED
              ELSE IF raw_state \in {<<"PENDING">>, <<"CONFIGURING">>} THEN PENDING
              ELSE IF raw_state \in {<<"RUNNING">>, <<"COMPLETING">>} THEN RUNNING
              ELSE IF raw_state \in {<<"CANCELLED">>, <<"FAILED">>, <<"TIMEOUT">>,
                                     <<"NODE_FAIL">>, <<"OUT_OF_MEMORY">>,
                                     <<"PREEMPTED">>} THEN FAILED
              ELSE UNKNOWN

\* lines 122-147: the status for sacct's return code and output
HistoricalStatus(rc, out) ==
    IF rc # 0 THEN UNKNOWN
    ELSE LET lines == StrippedLines(splitlines(out)) IN
         IF lines = <<>> THEN UNKNOWN
         ELSE LET raw_state == RawState(lines) IN
              IF raw_state = <<"COMPLETED">> THEN COMPLETED
              ELSE IF raw_state \in {<<"PENDING">>, <<"CONFIGURING">>} THEN PENDING
              ELSE IF raw_state \in {<<"RUNNING">>, <<"COMPLETING">>} THEN RUNNING
              ELSE IF raw_state \in {<<"CANCELLED">>, <<"FAILED">>, <<"TIMEOUT">>,
                                     <<"NODE_FAIL">>, <<"OUT_OF_MEMORY">>,
                                     <<"PREEMPTED">>} THEN FAILED
              ELSE FAILED

\* no check_status call under way
LiveIdle ==
    [pc |-> "idle", state |-> <<>>, sacct |-> FALSE, rc |-> 0, out |-> <<>>,
     answer |-> ""]

\* lines 107-120: squeue runs, with any return code and output; a non-empty
\* state is answered from it alone
LiveActive ==
    /\ live.pc = "idle"
    /\ \E rc \in ReturnCodes, out \in Outputs :
         LET state == IF rc = 0 THEN strip(out) ELSE <<>> IN
         live' = IF state # <<>>
                 THEN [live EXCEPT !.pc = "done", !.state = state,
                                   !.answer = ActiveStatus(state)]
                 ELSE [live EXCEPT !.pc = "sacct"]
    /\ UNCHANGED <<now, jobs, workdir, maintenance, runnerCfg, quota, pool, sub, poll,
                   req, scancelled, submitCalls, lastSeen, siteRows, lateVars,
                   retention, extra, sweep, scan, fake>>

\* lines 122-147: squeue gave nothing; sacct runs, with any return code and
\* output, and is answered from
LiveHistorical ==
    /\ live.pc = "sacct"
    /\ \E rc \in ReturnCodes, out \in Outputs :
         live' = [live EXCEPT !.pc = "done", !.sacct = TRUE, !.rc = rc, !.out = out,
                              !.answer = HistoricalStatus(rc, out)]
    /\ UNCHANGED <<now, jobs, workdir, maintenance, runnerCfg, quota, pool, sub, poll,
                   req, scancelled, submitCalls, lastSeen, siteRows, lateVars,
                   retention, extra, sweep, scan, fake>>

(* --------------------------- retention sweep -------------------------- *)

\* settings.DEFAULT_RETENTION_DAYS
DEFAULT_RETENTION_DAYS == 30

\* get_retention_days: the default for staff and for an account without a
\* UserQuota row, the row's retention_days otherwise
get_retention_days(u) ==
    IF IsStaff(u) THEN DEFAULT_RETENTION_DAYS
    ELSE IF retention[u] = None THEN DEFAULT_RETENTION_DAYS
    ELSE retention[u]

\* the retention the sweep applies to j's owner
SweepDays(j, override_days) ==
    IF override_days # None THEN override_days ELSE get_retention_days(jobs[j].owner)

\* get_jobs_for_cleanup without the "0 means never delete" test
get_jobs_for_cleanup_NoZeroSkip(override_days) ==
    { [job |-> j, workdir_exists |-> workdir[j].made] :
        j \in { k \in JobIds :
                  /\ jobs[k].exists
                  /\ jobs[k].status \in {COMPLETED, FAILED}
                  /\ jobs[k].completed_at # None
                  /\ jobs[k].completed_at < now - SweepDays(k, override_days) * DayMinutes } }

\* get_jobs_for_cleanup: the terminal jobs completed before their cutoff,
\* each with whether its workdir exists now
get_jobs_for_cleanup(override_days) ==
    { [job |-> j, workdir_exists |-> workdir[j].made] :
        j \in { k \in JobIds :
                  /\ jobs[k].exists
                  /\ jobs[k].status \in {COMPLETED, FAILED}
                  /\ jobs[k].completed_at # None
                  /\ SweepDays(k, override_days) # 0
                  /\ jobs[k].completed_at < now - SweepDays(k, override_days) * DayMinutes } }

\* no cleanup_jobs call under way
SweepIdle ==
    [pc |-> "idle", dry_run |-> TRUE, override_days |-> None, items |-> {}, todo |-> {},
     cleaned |-> 0, skipped |-> 0, errors |-> {}]

\* cleanup_jobs, line 127: the candidates are listed
SweepStart(dry_run, override_days) ==
    /\ sweep.pc = "idle"
    /\ LET jobs_for_cleanup == get_jobs_for_cleanup(override_days) IN
         sweep' = [SweepIdle EXCEPT !.pc = "running", !.dry_run = dry_run,
                                    !.override_days = override_days,
                                    !.items = jobs_for_cleanup,
                                    !.todo = jobs_for_cleanup]
    /\ UNCHANGED <<now, jobs, workdir, maintenance, runnerCfg, quota, pool, sub, poll,
                   req, scancelled, submitCalls, lastSeen, siteRows, lateVars,
                   retention, extra, scan, fake, live>>

\* cleanup_jobs that calls cleanup_job_workdir in a dry run too
SweepAttempts_IgnoresDryRun(s, item) == item.workdir_exists

\* cleanup_jobs, lines 137-147: whether cleanup_job_workdir is called for item
SweepAttempts(s, item) == ~s.dry_run /\ item.workdir_exists

\* cleanup_job_workdir: True when the directory existed and rmtree succeeded
cleanup_job_workdir(j, rmtree_ok) == workdir[j].made /\ rmtree_ok

\* the counters after an item, with a failed deletion left out of errors
Tally_DropsErrors(s, item, deleted) ==
    IF item.workdir_exists
    THEN IF s.dry_run \/ deleted
         THEN [s EXCEPT !.cleaned = s.cleaned + 1, !.todo = s.todo \ {item}]
         ELSE [s EXCEPT !.todo = s.todo \ {item}]
    ELSE [s EXCEPT !.skipped = s.skipped + 1, !.todo = s.todo \ {item}]

\* cleanup_jobs, lines 134-147: the counters after an item
Tally(s, item, deleted) ==
    IF item.workdir_exists
    THEN IF s.dry_run \/ deleted
         THEN [s EXCEPT !.cleaned = s.cleaned + 1, !.todo = s.todo \ {item}]
         ELSE [s EXCEPT !.errors = s.errors \cup {item.job}, !.todo = s.todo \ {item}]
    ELSE [s EXCEPT !.skipped = s.skipped + 1, !.todo = s.todo \ {item}]

\* cleanup_jobs, one turn of the loop; rmtree_ok is whether shutil.rmtree
\* succeeds (an OSError leaves the directory in place)
SweepItem(item, rmtree_ok) ==
    /\ sweep.pc = "running"
    /\ item \in sweep.todo
    /\ LET deleted == SweepAttempts(sweep, item) /\ cleanup_job_workdir(item.job, rmtree_ok) IN
         /\ workdir' = IF deleted THEN [workdir EXCEPT ![item.job] = NoDir] ELSE workdir
         /\ sweep' = Tally(sweep, item, deleted)
    /\ UNCHANGED <<now, jobs, maintenance, runnerCfg, quota, pool, sub, poll,
                   req, scancelled, submitCalls, lastSeen, siteRows, lateVars,
                   retention, extra, scan, fake, live>>

\* cleanup_jobs, lines 149-158: the result is returned
SweepReturn ==
    /\ sweep.pc = "running"
    /\ sweep.todo = {}
    /\ sweep' = [sweep EXCEPT !.pc = "done"]
    /\ UNCHANGED <<now, jobs, workdir, maintenance, runnerCfg, quota, pool, sub, poll,
                   req, scancelled, submitCalls, lastSeen, siteRows, lateVars,
                   retention, extra, scan, fake, live>>

(* ----------------------------- orphan scans --------------------------- *)

\* the entries of JOB_BASE_DIR that are not job workdirs
ExtraNames == {"boltz_cache"}

\* every name an entry of JOB_BASE_DIR may have
Names == JobIds \cup ExtraNames

\* path.exists() and path.is_dir() for the entry called n
PathExists(n) == IF n \in JobIds THEN workdir[n].made ELSE extra[n] # "absent"
IsDir(n) == IF n \in JobIds THEN workdir[n].made ELSE extra[n] = "dir"

\* set(str(j) for j in Job.objects.values_list("id", flat=True))
JobIdsInLedger == {j \in JobIds : jobs[j].exists}

\* the listing of detect_orphan_workdirs without the is_dir test
OrphanListing_NoDirCheck(job_ids) == {n \in Names : PathExists(n) /\ n \notin job_ids}

\* detect_orphan_workdirs, lines 183-196: the directories under the job
\* root whose name is not among the ids read before
OrphanListing(job_ids) == {n \in Names : IsDir(n) /\ n \notin job_ids}

\* detect_orphan_jobs reporting the jobs whose workdir exists
detect_orphan_jobs_Present == {j \in JobIds : jobs[j].exists /\ workdir[j].made}

\* detect_orphan_jobs: the jobs whose workdir does not exist
detect_orphan_jobs == {j \in JobIds : jobs[j].exists /\ ~workdir[j].made}

\* the callers of detect_orphan_workdirs: the cleanup dashboard, the
\* delete_all_orphans view, the detect_orphans command without and with --fix
ScanCallers == {"dashboard", "delete_all", "detect", "fix"}
Deleters == {"delete_all", "fix"}
JobScanners == {"dashboard", "detect", "fix"}

\* no delete_orphan_workdir call made yet
NoCall == [path |-> "", returned |-> FALSE]

\* no scan under way
ScanIdle ==
    [pc |-> "idle", caller |-> "", job_ids |-> {}, orphans |-> {}, todo |-> {},
     orphan_jobs |-> {}, last |-> NoCall]

\* detect_orphan_workdirs, line 181: the ids of the ledger are read
ScanIds(caller) ==
    /\ scan.pc = "idle"
    /\ scan' = [ScanIdle EXCEPT !.pc = "ids", !.caller = caller,
                                !.job_ids = JobIdsInLedger]
    /\ UNCHANGED <<now, jobs, workdir, maintenance, runnerCfg, quota, pool, sub, poll,
                   req, scancelled, submitCalls, lastSeen, siteRows, lateVars,
                   retention, extra, sweep, fake, live>>

\* detect_orphan_workdirs, lines 183-198: the job root is listed
ScanList ==
    /\ scan.pc = "ids"
    /\ LET orphans == OrphanListing(scan.job_ids) IN
         scan' = [scan EXCEPT !.pc = "listed", !.orphans = orphans,
                              !.todo = IF scan.caller \in Deleters THEN orphans ELSE {}]
    /\ UNCHANGED <<now, jobs, workdir, maintenance, runnerCfg, quota, pool, sub, poll,
                   req, scancelled, submitCalls, lastSeen, siteRows, lateVars,
                   retention, extra, sweep, fake, live>>

\* delete_orphan_workdir: True when the path exists and rmtree succeeds,
\* which it does not on a path that is no directory
delete_orphan_workdir(n, rmtree_ok) == PathExists(n) /\ IsDir(n) /\ rmtree_ok

\* the job root after delete_orphan_workdir(n)
RemoveEntry(n, deleted) ==
    /\ workdir' = IF deleted /\ n \in JobIds THEN [workdir EXCEPT ![n] = NoDir]
                  ELSE workdir
    /\ extra' = IF deleted /\ n \in ExtraNames THEN [extra EXCEPT ![n] = "absent"]
                ELSE extra

\* delete_all_orphans, lines 96-100, and detect_orphans --fix, lines 66-75:
\* one reported orphan is deleted
ScanDelete(n, rmtree_ok) ==
    /\ scan.pc = "listed"
    /\ n \in scan.todo
    /\ LET deleted == delete_orphan_workdir(n, rmtree_ok) IN
         /\ RemoveEntry(n, deleted)
         /\ scan' = [scan EXCEPT !.todo = scan.todo \ {n},
                                 !.last = [path |-> n, returned |-> deleted]]
    /\ UNCHANGED <<now, jobs, maintenance, runnerCfg, quota, pool, sub, poll,
                   req, scancelled, submitCalls, lastSeen, siteRows, lateVars,
                   retention, sweep, fake, live>>

\* the end of the caller: the dashboard and the command go on to
\* detect_orphan_jobs, delete_all_orphans returns
ScanJobs ==
    /\ scan.pc = "listed"
    /\ scan.todo = {}
    /\ scan' = [scan EXCEPT !.pc = "done",
                            !.orphan_jobs = IF scan.caller \in JobScanners
                                            THEN detect_orphan_jobs ELSE {}]
    /\ UNCHANGED <<now, jobs, workdir, maintenance, runnerCfg, quota, pool, sub, poll,
                   req, scancelled, submitCalls, lastSeen, siteRows, lateVars,
                   retention, extra, sweep, fake, live>>

\* console/views/cleanup.py delete_orphan: a path the dashboard listed is
\* posted back and deleted
delete_orphan(n, rmtree_ok) ==
    /\ scan.pc = "done"
    /\ scan.caller = "dashboard"
    /\ n \in scan.orphans
    /\ LET deleted == delete_orphan_workdir(n, rmtree_ok) IN
         /\ RemoveEntry(n, deleted)
         /\ scan' = [scan EXCEPT !.last = [path |-> n, returned |-> deleted]]
    /\ UNCHANGED <<now, jobs, maintenance, runnerCfg, quota, pool, sub, poll,
                   req, scancelled, submitCalls, lastSeen, siteRows, lateVars,
                   retention, sweep, fake, live>>

\* the caller has returned; the next scan may start
ScanReturn ==
    /\ scan.pc = "done"
    /\ scan' = [scan EXCEPT !.pc = "idle"]
    /\ UNCHANGED <<now, jobs, workdir, maintenance, runnerCfg, quota, pool, sub, poll,
                   req, scancelled, submitCalls, lastSeen, siteRows, lateVars,
                   retention, extra, sweep, fake, live>>

(* --------------------- the scheduler under the poller ------------------ *)

\* what the scheduler holds of a submitted job: it is queued or running, it
\* has settled as completed or failed, or the scheduler has lost track of it
SchedStates == {"queued", "running", "completed", "failed", "lost"}

\* the states a job does not leave
SchedSettled == {"completed", "failed", "lost"}

\* slurm.check_status for a job in the given scheduler state: UNKNOWN when
\* neither squeue nor sacct knows the job
check_status(s) ==
    IF s = "queued" THEN PENDING
    ELSE IF s = "running" THEN RUNNING
    ELSE IF s = "completed" THEN COMPLETED
    ELSE IF s = "failed" THEN FAILED
    ELSE UNKNOWN

\* the cluster moves a job on: a queued job starts, and a job that has not
\* settled ends or is lost
SchedAdvance(j) ==
    /\ sched[j] \in {"queued", "running"}
    /\ \E s \in SchedStates :
         /\ s # sched[j]
         /\ sched[j] = "running" => s # "queued"
         /\ sched' = [sched EXCEPT ![j] = s]
    /\ UNCHANGED <<now, jobs, workdir, maintenance, runnerCfg, quota, pool, sub, poll,
                   req, scancelled, submitCalls, lastSeen, siteRows, houseVars,
                   runnerRes, script, ret>>

\* one iteration of the poller's loop, check_status answering from what the
\* scheduler holds
PollTruth(j) ==
    /\ sched[j] \in SchedStates
    /\ PollStep(j, check_status(sched[j]))

(* --------------------------- specification ---------------------------- *)

\* a UserQuota row
Quota(dis, c, q, d) ==
    [is_disabled |-> dis, max_concurrent_jobs |-> c, max_queued_jobs |-> q, jobs_per_day |-> d]

\* the row get_user_quota creates on first use
DefaultQuota ==
    Quota(FALSE, DEFAULT_MAX_CONCURRENT_JOBS, DEFAULT_MAX_QUEUED_JOBS, DEFAULT_JOBS_PER_DAY)

\* the UserQuota rows an administrator may have set for the ordinary user
QuotaChoices ==
    { DefaultQuota, Quota(TRUE, 0, 0, 0), Quota(FALSE, 0, 0, 0),
      Quota(FALSE, 1, 0, 0), Quota(FALSE, 1, 1, 0) }

\* the UserQuota rows an administrator may have set for the staff user
StaffQuotaChoices == { DefaultQuota, Quota(TRUE, 0, 0, 0) }

\* no call in flight, no switch touched
InitQuiet ==
    /\ maintenance = FALSE
    /\ runnerCfg = "absent"
    /\ sub = [j \in JobIds |-> NoSub]
    /\ poll = PollIdle
    /\ req = NoReq
    /\ scancelled = {}
    /\ submitCalls = [j \in JobIds |-> 0]
    /\ lastSeen = [j \in JobIds |-> None]
    /\ siteRows = {}

\* the state after deployment, but for the calls to come and the quota rows
InitBase ==
    /\ now = 0
    /\ jobs = [j \in JobIds |-> NoJob]
    /\ workdir = [j \in JobIds |-> NoDir]
    /\ InitQuiet

\* no RunnerConfig row edited, no script rendered, no console cancel made, and
\* the scheduler holding no job
InitLate ==
    /\ runnerRes = DefaultResources
    /\ script = NoScript
    /\ ret = NoReturn
    /\ sched = [j \in JobIds |-> "none"]

\* no housekeeping call and no scheduler query under way, an empty job root
InitHouse ==
    /\ retention = [u \in Users |-> None]
    /\ extra = [n \in ExtraNames |-> "absent"]
    /\ sweep = SweepIdle
    /\ scan = ScanIdle
    /\ fake = FakeIdle
    /\ live = LiveIdle

\* nothing under way outside submission, polling and the owners' requests
InitAux ==
    /\ InitHouse
    /\ InitLate

\* one submission arrives; every account has the default quota row
Init ==
    /\ InitBase
    /\ InitAux
    /\ pool = {"j1"}
    /\ quota = [u \in Users |-> DefaultQuota]

\* two submissions arrive; the quota rows are any an administrator has set
InitAdmission ==
    /\ InitBase
    /\ InitAux
    /\ pool = JobIds
    /\ quota \in {q \in [Users -> QuotaChoices \cup StaffQuotaChoices] :
                     /\ q["alice"] \in QuotaChoices
                     /\ q["root"] \in StaffQuotaChoices}

Next ==
    \/ \E j \in JobIds, u \in Users, inp \in Inputs : SubmitCheck(j, u, inp)
    \/ \E j \in JobIds : SubmitCreate(j)
    \/ \E j \in JobIds, outcome \in SubmitOutcomes : SubmitFinish(j, outcome)
    \/ PollStart
    \/ \E j \in JobIds, r \in CheckStatusResults : PollStep(j, r)
    \/ \E kind \in OwnerKinds \cup AdminKinds, j \in JobIds : ReqLoad(kind, j)
    \/ job_cancel
    \/ api_job_cancel
    \/ cancel_job
    \/ cancel_jobs
    \/ hide_job_from_owner
    \/ job_delete
    \/ toggle_maintenance
    \/ settings_page
    \/ toggle_runner
    \/ Tick

\* every writer of a Job row, interleaved, over one submission
Spec == Init /\ [][Next]_vars

\* submission, polling and the administrator's switches, over two submissions
NextAdmission ==
    \/ \E j \in JobIds, u \in Users, inp \in Inputs : SubmitCheck(j, u, inp)
    \/ \E j \in JobIds : SubmitCreate(j)
    \/ \E j \in JobIds, outcome \in SubmitOutcomes : SubmitFinish(j, outcome)
    \/ PollStart
    \/ \E j \in JobIds, r \in CheckStatusResults : PollStep(j, r)
    \/ toggle_maintenance
    \/ \E m \in BOOLEAN : save_fresh_settings(m)
    \/ settings_page
    \/ toggle_runner

SpecAdmission == InitAdmission /\ [][NextAdmission]_vars

\* the simulated scheduler serving one job
InitScheduler == InitBase /\ InitAux /\ pool = {} /\ quota = [u \in Users |-> DefaultQuota]

NextFake == FakeSubmit \/ FakeCancel \/ FakeCheck \/ FakeTick

SpecFake == InitScheduler /\ [][NextFake]_vars

\* one live check_status call, over every answer of squeue and sacct
NextLive == LiveActive \/ LiveHistorical

SpecLive == InitScheduler /\ [][NextLive]_vars

\* the age in days of the oldest job the sweep meets
MaxAgeDays == 31

\* the completion times of the jobs the sweep meets: MaxAgeDays ago, one day
\* later, and a minute ago
CompletedAtChoices == {0, DayMinutes, MaxAgeDays * DayMinutes - 1}

\* a job that ran and ended at time t with status s
EndedJob(j, owner, s, t) ==
    [NewJob(owner, 0) EXCEPT !.status = s, !.slurm_job_id = SlurmIdOf(j),
                             !.submitted_at = 0, !.completed_at = t]

\* a job that is still PENDING or RUNNING under the scheduler
ActiveJob(j, owner, s) ==
    [NewJob(owner, 0) EXCEPT !.status = s, !.slurm_job_id = SlurmIdOf(j),
                             !.submitted_at = 0]

\* the rows the ledger may hold for j when housekeeping runs
LedgerChoices(j) ==
    {NoJob}
    \cup {ActiveJob(j, u, s) : u \in Users, s \in {PENDING, RUNNING}}
    \cup {EndedJob(j, u, s, t) : u \in Users, s \in {COMPLETED, FAILED},
                                 t \in CompletedAtChoices}

\* UserQuota.retention_days as an administrator may have set it
RetentionChoices == {None, 0, 1}

\* whether {base}/{id} holds a directory
DirChoices == {NoDir, prepare_workdir(NoInput)}

\* the ledger, the job root and the quota rows when a retention sweep runs
InitSweep ==
    /\ InitQuiet
    /\ now = MaxAgeDays * DayMinutes
    /\ pool = {}
    /\ quota = [u \in Users |-> DefaultQuota]
    /\ jobs \in {f \in [JobIds -> UNION {LedgerChoices(j) : j \in JobIds}] :
                    \A j \in JobIds : f[j] \in LedgerChoices(j)}
    /\ workdir \in [JobIds -> DirChoices]
    /\ retention \in [Users -> RetentionChoices]
    /\ extra = [n \in ExtraNames |-> "absent"]
    /\ sweep = SweepIdle
    /\ scan = ScanIdle
    /\ fake = FakeIdle
    /\ live = LiveIdle
    /\ InitLate

\* the retention period cleanup_jobs may be given in place of the owners'
OverrideChoices == {None, 0, 1}

NextSweep ==
    \/ \E dry_run \in BOOLEAN, d \in OverrideChoices : SweepStart(dry_run, d)
    \/ \E item \in sweep.todo, rmtree_ok \in BOOLEAN : SweepItem(item, rmtree_ok)
    \/ SweepReturn

SpecSweep == InitSweep /\ [][NextSweep]_vars

\* what the job root may hold under a name that is no job's
EntryChoices == {"absent", "dir", "file"}

\* the ledger and the job root when the orphan scans run, nothing else going on
InitOrphans ==
    /\ InitQuiet
    /\ now = 0
    /\ pool = {}
    /\ quota = [u \in Users |-> DefaultQuota]
    /\ jobs \in {f \in [JobIds -> UNION {LedgerChoices(j) : j \in JobIds}] :
                    \A j \in JobIds :
                       /\ f[j] \in LedgerChoices(j)
                       /\ f[j].exists => (f[j].owner = "alice" /\ f[j].completed_at \in {None, 0})}
    /\ workdir \in [JobIds -> DirChoices]
    /\ retention = [u \in Users |-> None]
    /\ extra \in [ExtraNames -> EntryChoices]
    /\ sweep = SweepIdle
    /\ scan = ScanIdle
    /\ fake = FakeIdle
    /\ live = LiveIdle
    /\ InitLate

NextOrphans ==
    \/ \E caller \in ScanCallers : ScanIds(caller)
    \/ ScanList
    \/ \E n \in Names, rmtree_ok \in BOOLEAN : ScanDelete(n, rmtree_ok)
    \/ ScanJobs
    \/ \E n \in Names, rmtree_ok \in BOOLEAN : delete_orphan(n, rmtree_ok)
    \/ ScanReturn

SpecOrphans == InitOrphans /\ [][NextOrphans]_vars

\* the orphan scans while one submission arrives
NextOrphanRace ==
    \/ \E j \in JobIds, u \in Users, inp \in Inputs : SubmitCheck(j, u, inp)
    \/ \E j \in JobIds : SubmitCreate(j)
    \/ \E j \in JobIds, outcome \in SubmitOutcomes : SubmitFinish(j, outcome)
    \/ \E caller \in ScanCallers : ScanIds(caller)
    \/ ScanList
    \/ \E n \in Names, rmtree_ok \in BOOLEAN : ScanDelete(n, rmtree_ok)
    \/ ScanJobs
    \/ ScanReturn

SpecOrphanRace == Init /\ [][NextOrphanRace]_vars

\* the rows update_runner_config can have saved
RunnerRows ==
    [partition : {"", "gpu"}, time_limit : TimeLimitPosted, gpus : {0, 1},
     cpus : {0, 1, 2}, mem_gb : {0, 8}]

\* one submission, to a runner whose RunnerConfig row is missing or is one an
\* administrator saved, while the administrator edits and toggles the row
InitRunner ==
    /\ now = 0
    /\ jobs = [j \in JobIds |-> NoJob]
    /\ workdir = [j \in JobIds |-> NoDir]
    /\ maintenance = FALSE
    /\ \/ runnerCfg = "absent" /\ runnerRes = DefaultResources
       \/ runnerCfg = "enabled" /\ runnerRes \in RunnerRows
    /\ sub = [j \in JobIds |-> NoSub]
    /\ poll = PollIdle
    /\ req = NoReq
    /\ scancelled = {}
    /\ submitCalls = [j \in JobIds |-> 0]
    /\ lastSeen = [j \in JobIds |-> None]
    /\ siteRows = {}
    /\ retention = [u \in Users |-> None]
    /\ extra = [n \in ExtraNames |-> "absent"]
    /\ sweep = SweepIdle
    /\ scan = ScanIdle
    /\ fake = FakeIdle
    /\ live = LiveIdle
    /\ script = NoScript
    /\ ret = NoReturn
    /\ sched = [j \in JobIds |-> "none"]
    /\ pool = {"j1"}
    /\ quota = [u \in Users |-> DefaultQuota]

NextRunner ==
    \/ \E j \in JobIds, u \in Users, inp \in Inputs : SubmitCheck(j, u, inp)
    \/ \E j \in JobIds : SubmitCreate(j)
    \/ \E j \in JobIds, outcome \in SubmitOutcomes : SubmitFinish(j, outcome)
    \/ toggle_runner
    \/ \E post \in RunnerPosts : update_runner_config(post)

SpecRunner == InitRunner /\ [][NextRunner]_vars

\* one submission to a runner that has no RunnerConfig row until the
\* submission's get_config creates it; the administrator can edit and toggle
\* the row from then on
SpecMissingRow == Init /\ [][NextRunner]_vars

\* two submissions under the default quota rows while poll_jobs runs and the
\* clock advances
InitPolling ==
    /\ InitBase
    /\ InitAux
    /\ pool = JobIds
    /\ quota = [u \in Users |-> DefaultQuota]

NextPolling ==
    \/ \E j \in JobIds, u \in Users, inp \in Inputs : SubmitCheck(j, u, inp)
    \/ \E j \in JobIds : SubmitCreate(j)
    \/ \E j \in JobIds, outcome \in SubmitOutcomes : SubmitFinish(j, outcome)
    \/ PollStart
    \/ \E j \in JobIds, r \in CheckStatusResults : PollStep(j, r)
    \/ Tick

SpecPolling == InitPolling /\ [][NextPolling]_vars

\* a submission that carries parameters and neither text nor files
ParamsOnly == [pad |-> 0, body |-> 0, files |-> FALSE, params |-> TRUE, invalid |-> FALSE]

\* two submissions, parameter-only ones among them, while an administrator
\* toggles maintenance mode and the runner
NextInputs ==
    \/ \E j \in JobIds, u \in Users, inp \in Inputs \cup {ParamsOnly} : SubmitCheck(j, u, inp)
    \/ \E j \in JobIds : SubmitCreate(j)
    \/ \E j \in JobIds, outcome \in SubmitOutcomes : SubmitFinish(j, outcome)
    \/ toggle_maintenance
    \/ toggle_runner

SpecInputs == InitPolling /\ [][NextInputs]_vars

\* one submission and the poller, while an administrator cancels jobs in
\* bulk from the console
NextConsole ==
    \/ \E j \in JobIds, u \in Users, inp \in Inputs : SubmitCheck(j, u, inp)
    \/ \E j \in JobIds : SubmitCreate(j)
    \/ \E j \in JobIds, outcome \in SubmitOutcomes : SubmitFinish(j, outcome)
    \/ PollStart
    \/ \E j \in JobIds, r \in CheckStatusResults : PollStep(j, r)
    \/ \E j \in JobIds : ReqLoad("bulk_cancel_jobs", j)
    \/ bulk_cancel_jobs
    \/ Tick

SpecConsole == Init /\ [][NextConsole]_vars

\* two submissions by accounts an administrator has limited to one queued job
InitQueue ==
    /\ InitBase
    /\ InitAux
    /\ pool = JobIds
    /\ quota = [u \in Users |-> Quota(FALSE, 1, 1, DEFAULT_JOBS_PER_DAY)]

SpecQueue == InitQueue /\ [][NextPolling]_vars

\* two jobs submitted at time 0 and queued at the scheduler
InitFair ==
    /\ InitQuiet
    /\ InitHouse
    /\ now = 0
    /\ pool = {}
    /\ quota = [u \in Users |-> DefaultQuota]
    /\ jobs = [j \in JobIds |-> ActiveJob(j, "alice", PENDING)]
    /\ workdir = [j \in JobIds |-> [made |-> TRUE, fasta |-> <<1, 3>>, files |-> FALSE,
                                   sbatch |-> TRUE]]
    /\ runnerRes = DefaultResources
    /\ script = NoScript
    /\ ret = NoReturn
    /\ sched = [j \in JobIds |-> "queued"]

\* the poller, the cluster and the clock
NextFair ==
    \/ PollStart
    \/ \E j \in JobIds : PollTruth(j)
    \/ \E j \in JobIds : SchedAdvance(j)
    \/ Tick

\* poll_jobs is run again and again and each run goes through its queryset,
\* and time passes; the cluster is under no obligation
FairPoller ==
    /\ WF_vars(PollStart)
    /\ \A j \in JobIds : WF_vars(PollTruth(j))
    /\ WF_vars(Tick)

SpecFair == InitFair /\ [][NextFair]_vars /\ FairPoller

(* ------------------------------ properties ---------------------------- *)

\* the status changes the lifecycle allows
ValidTransitions ==
    {<<PENDING, RUNNING>>, <<RUNNING, COMPLETED>>, <<RUNNING, FAILED>>, <<PENDING, FAILED>>}

\* C1: a Job whose stored status is COMPLETED or FAILED keeps that status in
\* every later state, whatever poller runs, cancels, hides and soft-deletes
\* follow.
C1_TerminalIsFinal ==
    [][\A j \in JobIds :
          (jobs[j].exists /\ jobs[j].status \in Terminal)
              => jobs'[j].status = jobs[j].status]_vars

\* C2: when the poller processes a job it loaded as active and a cancel has
\* meanwhile stored FAILED with its reason and completed_at, the poller leaves
\* the status FAILED and the recorded completed_at as they are.
C2_PollerKeepsCancel ==
    [][\A j \in JobIds :
          (/\ poll.rows[j].loaded
           /\ ~poll'.rows[j].loaded
           /\ jobs[j].status = FAILED
           /\ jobs[j].error_message \in CancelMsgs)
              => /\ jobs'[j].status = FAILED
                 /\ jobs'[j].completed_at = jobs[j].completed_at]_vars

\* C3: for every Job row, completed_at is set exactly when the status is
\* COMPLETED or FAILED.
C3_CompletedAtIffTerminal ==
    \A j \in JobIds :
        jobs[j].exists => ((jobs[j].completed_at # None) <=> (jobs[j].status \in Terminal))

\* C3 witness: the poller has moved a job to a terminal status after a cancel
\* of the same job, and a stale-job failure is stored
C3_Witness ==
    \E j \in JobIds :
        /\ jobs[j].exists
        /\ jobs[j].status = FAILED
        /\ jobs[j].error_message = MsgStale
        /\ jobs[j].completed_at # None
        /\ j \in scancelled

\* C4: for every Job row, submitted_at is set exactly when slurm_job_id is
\* non-empty.
C4_SubmittedAtIffSlurmId ==
    \A j \in JobIds :
        jobs[j].exists => ((jobs[j].submitted_at # None) <=> (jobs[j].slurm_job_id # ""))

\* C4 witness: a submitted job that was cancelled through the API while its
\* submission was still in flight, hidden, and has both fields set
C4_Witness ==
    \E j \in JobIds :
        /\ jobs[j].exists
        /\ jobs[j].slurm_job_id # ""
        /\ jobs[j].submitted_at # None
        /\ jobs[j].error_message = MsgCancelApi
        /\ j \notin scancelled
        /\ jobs[j].hidden_from_owner

\* C5: every change of a stored status is PENDING->RUNNING, RUNNING->COMPLETED,
\* RUNNING->FAILED or PENDING->FAILED.
C5_OnlyValidTransitions ==
    [][\A j \in JobIds :
          (jobs[j].exists /\ jobs'[j].status # jobs[j].status)
              => <<jobs[j].status, jobs'[j].status>> \in ValidTransitions]_vars

\* the poller stores the stale-job failure for j in this step
ForceFailed(j) ==
    /\ poll.rows[j].loaded
    /\ ~poll'.rows[j].loaded
    /\ jobs'[j].error_message = MsgStale
    /\ jobs[j].error_message # MsgStale

\* C6: the poller force-fails a job for staleness only if check_status has not
\* reported it PENDING or RUNNING during the last STALE_JOB_TIMEOUT.
C6_StaleOnlyAfterUnknownSpan ==
    [][\A j \in JobIds :
          ForceFailed(j)
              => (lastSeen[j] = None \/ now - lastSeen[j] >= STALE_JOB_TIMEOUT)]_vars

\* the create_and_submit_job call for j runs its checks in this step
Checked(j) == j \in pool /\ j \notin pool'

\* C7: the message raised is that of the first failing check in the order
\* maintenance, runner, account disabled, running count, pending count,
\* per-day count.
C7_FirstFailingCheck ==
    [][\A j \in JobIds :
          Checked(j) =>
            LET u == sub'[j].owner
                e == sub'[j].error
                m1 == maintenance
                m2 == runnerCfg = "disabled"
                q == ~IsStaff(u)
                m3 == quota[u].is_disabled
                m4 == CountStatus(u, RUNNING) >= quota[u].max_concurrent_jobs
                m5 == CountStatus(u, PENDING) >= quota[u].max_queued_jobs
                m6 == JobsToday(u) >= quota[u].jobs_per_day
            IN  /\ m1 => e = MsgMaintenance
                /\ (~m1 /\ m2) => e = MsgRunnerDisabled
                /\ (~m1 /\ ~m2 /\ q /\ m3) => e = MsgAccountDisabled
                /\ (~m1 /\ ~m2 /\ q /\ ~m3 /\ m4) => e = MsgMaxConcurrent
                /\ (~m1 /\ ~m2 /\ q /\ ~m3 /\ ~m4 /\ m5) => e = MsgMaxQueued
                /\ (~m1 /\ ~m2 /\ q /\ ~m3 /\ ~m4 /\ ~m5 /\ m6) => e = MsgPerDay]_vars

\* C7 witness: a disabled ordinary account that is over every limit has been
\* refused with the disabled-account message, and another call has been refused
\* with the maintenance message by an account that is disabled too
C7_Witness ==
    /\ sub["j1"].pc = "raised"
    /\ sub["j1"].error = MsgAccountDisabled
    /\ ~IsStaff(sub["j1"].owner)
    /\ quota[sub["j1"].owner].is_disabled
    /\ CountStatus(sub["j1"].owner, RUNNING) >= quota[sub["j1"].owner].max_concurrent_jobs
    /\ CountStatus(sub["j1"].owner, PENDING) >= quota[sub["j1"].owner].max_queued_jobs
    /\ JobsToday(sub["j1"].owner) >= quota[sub["j1"].owner].jobs_per_day
    /\ sub["j2"].pc = "raised"
    /\ sub["j2"].error = MsgMaintenance
    /\ sub["j2"].owner = sub["j1"].owner
    /\ runnerCfg = "disabled"

\* C8: a call that raises from its checks leaves the Job table and the job
\* tree as they were and does not call slurm.submit.
C8_RejectionChangesNothing ==
    [][\A j \in JobIds :
          (Checked(j) /\ sub'[j].pc = "raised")
              => /\ jobs' = jobs
                 /\ workdir' = workdir
                 /\ submitCalls' = submitCalls]_vars

\* C8 witness: a call refused for its input beside an accepted job; the
\* refused call has no row, no workdir and no submit
C8_Witness ==
    /\ sub["j2"].pc = "raised"
    /\ sub["j2"].error \in {MsgNoInput, MsgTooLarge, MsgRunnerValidation}
    /\ ~jobs["j2"].exists
    /\ workdir["j2"] = NoDir
    /\ submitCalls["j2"] = 0
    /\ jobs["j1"].exists
    /\ jobs["j1"].slurm_job_id # ""

\* the create_and_submit_job call for j leaves its try block by the handler
\* in this step
SubmitRaised(j) == sub[j].pc = "created" /\ sub'[j].pc = "raised"

\* C9: when build_script or slurm.submit raises, the row is kept with status
\* FAILED, the error text, completed_at set, no scheduler id and no
\* submitted_at, and the caller gets the error.
C9_FailedSubmissionRecorded ==
    [][\A j \in JobIds :
          SubmitRaised(j)
              => /\ jobs'[j].exists
                 /\ jobs'[j].status = FAILED
                 /\ sub'[j].error \in {MsgBuildError, MsgSubmitError}
                 /\ jobs'[j].error_message = sub'[j].error
                 /\ jobs'[j].completed_at = now
                 /\ jobs'[j].completed_at # None
                 /\ jobs'[j].slurm_job_id = ""
                 /\ jobs'[j].submitted_at = None]_vars

\* C9 witness: sbatch was called and failed, and the row records it
C9_Witness ==
    \E j \in JobIds :
        /\ sub[j].pc = "raised"
        /\ sub[j].error = MsgSubmitError
        /\ submitCalls[j] = 1
        /\ jobs[j].status = FAILED
        /\ jobs[j].error_message = MsgSubmitError

\* C10: slurm.submit is invoked at most once for every Job.
C10_SubmitAtMostOnce ==
    \A j \in JobIds : submitCalls[j] <= 1

\* C10 witness: a job whose sbatch failed has since been loaded by a cancel
\* request and hidden, and submit was called once
C10_Witness ==
    \E j \in JobIds :
        /\ submitCalls[j] = 1
        /\ jobs[j].error_message = MsgSubmitError
        /\ jobs[j].hidden_from_owner
        /\ req.kind = "cancel_job"
        /\ req.job = j

(* ------------------------- staff quota exemption ---------------------- *)

\* the messages check_quota refuses with
QuotaMsgs == {MsgAccountDisabled, MsgMaxConcurrent, MsgMaxQueued, MsgPerDay}

\* C11: a submission by a staff account is never refused on quota grounds,
\* whatever its quota row says and however many jobs it owns: outside
\* maintenance and with the runner enabled, its admission checks pass and only
\* the input checks can still refuse it.
C11_StaffExempt ==
    [][\A j \in JobIds :
          (Checked(j) /\ IsStaff(sub'[j].owner)) =>
            /\ sub'[j].error \notin QuotaMsgs
            /\ (sub'[j].error \in {MsgMaintenance, MsgRunnerDisabled})
                  => (maintenance \/ runnerCfg = "disabled")
            /\ (~maintenance /\ runnerCfg # "disabled")
                  => sub'[j].error \in {"", MsgNoInput, MsgTooLarge, MsgRunnerValidation}]_vars

\* C11 witness: a staff account whose quota row is disabled with every limit
\* at zero, and which already owns a job, has been admitted again.
C11_Witness ==
    /\ quota["root"].is_disabled
    /\ quota["root"].max_concurrent_jobs = 0
    /\ jobs["j1"].exists /\ jobs["j1"].owner = "root"
    /\ sub["j2"].pc = "admitted" /\ sub["j2"].owner = "root"

(* ------------------------- scheduler queries -------------------------- *)

\* the simulated check_status answers in this step
FakeAnswered == fake'.answer # fake.answer \/ fake'.results # fake.results

\* C12: in simulated mode a job submitted at T without a cancel marker is
\* answered PENDING while 0 <= elapsed < 5 seconds, RUNNING while
\* 5 <= elapsed < 15 and COMPLETED from 15 seconds on; the cancel marker, once
\* written, stays, and every answer given while it is there is FAILED whatever
\* the elapsed time.
C12_SimulatedTimeline ==
    [][/\ fake.canceled => fake'.canceled
       /\ FakeAnswered =>
            LET elapsed == fake.clock - fake.started_at
                r == fake'.answer.status
            IN  /\ fake.canceled => r = FAILED
                /\ (~fake.canceled /\ fake.started_at # None) =>
                     /\ (0 <= elapsed /\ elapsed < 5) => r = PENDING
                     /\ (5 <= elapsed /\ elapsed < 15) => r = RUNNING
                     /\ 15 <= elapsed => r = COMPLETED]_vars

\* C12 witness: a job that was answered COMPLETED (results.txt is written)
\* has been cancelled since and is answered FAILED, 15 seconds or more after
\* its submission.
C12_Witness ==
    /\ fake.started_at # None
    /\ fake.results
    /\ fake.canceled
    /\ fake.answer.status = FAILED
    /\ fake.answer.at - fake.started_at >= 15

\* the output's first non-blank line begins with the state word w, alone or
\* followed by a '+' suffix
StartsWithState(out, w) ==
    \E i \in 1..Len(out) :
        /\ out[i] = w
        /\ \A k \in 1..(i - 1) : IsSpace(out[k])
        /\ i = Len(out) \/ out[i + 1] \in {SP, NL, PLUS}

\* the output has no line with anything on it
AllBlank(out) == \A i \in 1..Len(out) : IsSpace(out[i])

\* the state words the mapping sends to FAILED
FailedWords ==
    {"CANCELLED", "FAILED", "TIMEOUT", "NODE_FAIL", "OUT_OF_MEMORY", "PREEMPTED"}

\* the state words the sacct branch of check_status knows
KnownWords == FailedWords \cup {"COMPLETED", "PENDING", "CONFIGURING", "RUNNING", "COMPLETING"}

\* the state word a finished call was answered from, "" when there is none
ReportedWord ==
    IF ~live.sacct
    THEN IF Len(live.state) = 1 /\ live.state[1] \in StateWords THEN live.state[1] ELSE ""
    ELSE IF live.rc = 0 /\ \E w \in StateWords : StartsWithState(live.out, w)
         THEN CHOOSE w \in StateWords : StartsWithState(live.out, w)
         ELSE ""

\* C13 as stated: sacct is asked only when squeue returned nothing, and
\* whichever query reports the state, CONFIGURING is answered PENDING,
\* COMPLETING is answered RUNNING and CANCELLED, FAILED, TIMEOUT, NODE_FAIL,
\* OUT_OF_MEMORY and PREEMPTED are answered FAILED; an unrecognized sacct
\* state is answered FAILED, and UNKNOWN is answered only when sacct fails or
\* prints no line.
C13_StateTable ==
    live.pc = "done" =>
        /\ live.sacct <=> live.state = <<>>
        /\ ReportedWord = "CONFIGURING" => live.answer = PENDING
        /\ ReportedWord = "COMPLETING" => live.answer = RUNNING
        /\ ReportedWord \in FailedWords => live.answer = FAILED
        /\ (live.sacct /\ live.rc = 0 /\ ~AllBlank(live.out)
              /\ ReportedWord \notin KnownWords) => live.answer = FAILED
        /\ live.answer = UNKNOWN => (live.sacct /\ (live.rc # 0 \/ AllBlank(live.out)))

\* C13, amended: sacct is asked only when squeue returned nothing; a state
\* reported by squeue is answered PENDING when it is PENDING or CONFIGURING
\* and RUNNING otherwise (COMPLETING, and CANCELLED or any other word too); a
\* state reported by sacct is answered PENDING for CONFIGURING, RUNNING for
\* COMPLETING, FAILED for CANCELLED, FAILED, TIMEOUT, NODE_FAIL, OUT_OF_MEMORY
\* and PREEMPTED, each with or without a '+' suffix, and FAILED when it is
\* not recognized; UNKNOWN is answered only when sacct fails or prints no line.
C13_StateTableBySource ==
    live.pc = "done" =>
        /\ live.sacct <=> live.state = <<>>
        /\ ~live.sacct =>
             /\ live.state \in {<<"PENDING">>, <<"CONFIGURING">>} => live.answer = PENDING
             /\ live.state \notin {<<"PENDING">>, <<"CONFIGURING">>} => live.answer = RUNNING
        /\ live.sacct =>
             /\ ReportedWord = "CONFIGURING" => live.answer = PENDING
             /\ ReportedWord = "COMPLETING" => live.answer = RUNNING
             /\ ReportedWord \in FailedWords => live.answer = FAILED
             /\ (live.rc = 0 /\ ~AllBlank(live.out) /\ ReportedWord \notin KnownWords)
                  => live.answer = FAILED
        /\ live.answer = UNKNOWN => (live.sacct /\ (live.rc # 0 \/ AllBlank(live.out)))

\* C13 witness: squeue returned nothing and sacct printed a blank line and
\* then TIMEOUT with a '+' suffix, which was answered FAILED.
C13_Witness ==
    /\ live.pc = "done"
    /\ live.sacct
    /\ live.out = <<NL, "TIMEOUT", PLUS>>
    /\ live.answer = FAILED

(* ---------------------------- housekeeping ---------------------------- *)

\* the sweep deletes j's workdir in this step
SweepDeletes(j) == sweep.pc = "running" /\ workdir[j].made /\ ~workdir'[j].made

\* the retention_days of the owner's UserQuota row, the default without a row
OwnerRetentionDays(u) ==
    IF retention[u] = None THEN DEFAULT_RETENTION_DAYS ELSE retention[u]

\* j is COMPLETED or FAILED and completed more than days days ago
EndedBefore(j, days) ==
    /\ jobs[j].exists
    /\ jobs[j].status \in {COMPLETED, FAILED}
    /\ jobs[j].completed_at # None
    /\ jobs[j].completed_at < now - days * DayMinutes

\* C14 as stated: a sweep without override deletes only workdirs of COMPLETED
\* or FAILED jobs completed before the window given by the retention_days of
\* their owner's UserQuota row, and none at all for an owner, staff or not,
\* whose retention_days is 0.
C14_SweepKeepsRetention ==
    [][\A j \in JobIds :
          (SweepDeletes(j) /\ sweep.override_days = None) =>
             /\ OwnerRetentionDays(jobs[j].owner) # 0
             /\ EndedBefore(j, OwnerRetentionDays(jobs[j].owner))]_vars

\* C14, amended: a sweep without override deletes only workdirs of COMPLETED
\* or FAILED jobs completed before their owner's window, which is the
\* retention_days of the UserQuota row for an owner who is not staff and
\* DEFAULT_RETENTION_DAYS for a staff owner, whatever that owner's row says;
\* no workdir of an owner who is not staff and has retention_days 0 is
\* deleted, and none of a PENDING or RUNNING job.
C14_SweepKeepsWindow ==
    [][\A j \in JobIds :
          (SweepDeletes(j) /\ sweep.override_days = None) =>
             LET u == jobs[j].owner
                 days == IF IsStaff(u) THEN DEFAULT_RETENTION_DAYS
                         ELSE OwnerRetentionDays(u)
             IN  /\ days # 0
                 /\ EndedBefore(j, days)
                 /\ jobs[j].status \notin {PENDING, RUNNING}]_vars

\* C14 witness: a sweep without override has deleted the old workdir of j1
\* and finished, while it left alone the equally old workdir of j2, whose
\* owner is not staff and has retention_days 0.
C14_Witness ==
    /\ sweep.pc = "done" /\ ~sweep.dry_run /\ sweep.override_days = None
    /\ sweep.cleaned = 1
    /\ jobs["j1"].exists /\ ~workdir["j1"].made
    /\ jobs["j2"].exists /\ jobs["j2"].owner = "alice" /\ retention["alice"] = 0
    /\ jobs["j2"].status = COMPLETED /\ jobs["j2"].completed_at = 0
    /\ workdir["j2"].made

\* C15: no step of cleanup_jobs changes, adds or removes a Job row, and a
\* step of a dry run removes no workdir either.
C15_SweepKeepsLedger ==
    [][sweep.pc = "running" =>
          /\ jobs' = jobs
          /\ sweep.dry_run => workdir' = workdir]_vars

\* C15 witness: a dry run has counted a job whose workdir exists as cleaned
\* and returned; the job's row and its workdir are still there.
C15_Witness ==
    /\ sweep.pc = "done" /\ sweep.dry_run
    /\ sweep.cleaned = 1
    /\ \E item \in sweep.items :
         /\ item.workdir_exists
         /\ jobs[item.job].exists /\ jobs[item.job].status = FAILED
         /\ workdir[item.job].made

\* C19: when a non-dry-run sweep returns, every candidate whose workdir
\* existed is either deleted or named in errors, a failure on one candidate
\* notwithstanding, and cleaned + skipped + the number of errors is the number
\* of candidates.
C19_SweepSurvivesErrors ==
    (sweep.pc = "done" /\ ~sweep.dry_run) =>
        /\ \A item \in sweep.items :
             item.workdir_exists => (~workdir[item.job].made \/ item.job \in sweep.errors)
        /\ \A j \in sweep.errors : workdir[j].made
        /\ sweep.cleaned + sweep.skipped + Cardinality(sweep.errors)
             = Cardinality(sweep.items)

\* C19 witness: a sweep with two candidates failed to delete the workdir of
\* one, recorded it, and deleted the workdir of the other.
C19_Witness ==
    /\ sweep.pc = "done" /\ ~sweep.dry_run
    /\ Cardinality(sweep.items) = 2
    /\ sweep.cleaned = 1
    /\ Cardinality(sweep.errors) = 1
    /\ \E j \in JobIds : j \notin sweep.errors /\ ~workdir[j].made

\* the directories directly under the job root whose name is no Job's id
OrphanDirs == {n \in Names : IsDir(n) /\ (n \in JobIds => ~jobs[n].exists)}

\* detect_orphan_workdirs lists the job root in this step
Listed == scan.pc = "ids" /\ scan'.pc = "listed"

\* delete_orphan_workdir is called in this step
DeleteCalled ==
    \/ scan.pc = "listed" /\ scan'.todo # scan.todo
    \/ scan.pc = "done" /\ scan'.pc = "done" /\ scan'.last # scan.last
    \/ scan.pc = "done" /\ scan'.pc = "done" /\ extra' # extra
    \/ scan.pc = "done" /\ scan'.pc = "done" /\ workdir' # workdir

C17_ScanSparesLedgerJobs ==
    [][\A j \in JobIds :
          /\ (Listed /\ jobs[j].exists) => j \notin scan'.orphans
          /\ (DeleteCalled /\ jobs[j].exists /\ workdir[j].made) => workdir'[j].made]_vars

(* --------------------------- site settings ---------------------------- *)

\* C20: whatever get_settings calls, maintenance toggles and saves of
\* freshly constructed instances have happened, the SiteSettings table holds
\* at most one row, and that row has primary key 1.
C20_SettingsSingleton ==
    /\ Cardinality(siteRows) <= 1
    /\ \A pk \in siteRows : pk = 1

\* C20 witness: the row exists, maintenance is on, and both submissions have
\* consulted the settings.
C20_Witness ==
    /\ siteRows = {1}
    /\ maintenance
    /\ pool = {}
    /\ runnerCfg = "absent"
(* ------------------------- runner configuration ----------------------- *)

\* the step in which create_and_submit_job renders the script of job j
Built(j) == sub[j].pc = "created" /\ workdir'[j].sbatch

\* whether the rendered directives hold the line
HasLine(d, line) == \E i \in DOMAIN d : d[i] = line

\* C21: a runner without a RunnerConfig row is admitted as an enabled one,
\* and the script built for it carries the directives of a row holding the
\* field defaults, which is the memory line alone; the row get_config leaves
\* behind is enabled and holds the defaults.
C21_MissingRowIsDefault ==
    [][\A j \in JobIds :
          /\ (Checked(j) /\ runnerCfg = "absent") => sub'[j].error # MsgRunnerDisabled
          /\ (Built(j) /\ runnerCfg = "absent")
                => /\ script'.built
                   /\ script'.directives = get_slurm_directives(DefaultResources)
                   /\ script'.directives = <<"#SBATCH --mem=8G">>
                   /\ runnerCfg' = "enabled"
                   /\ runnerRes' = [partition |-> "", gpus |-> 0, cpus |-> 1,
                                    mem_gb |-> 8, time_limit |-> ""]]_vars

\* the submission was admitted and has rendered its script against the
\* missing row, which it created
C21_Witness ==
    /\ sub["j1"].pc = "returned"
    /\ script.built
    /\ script.directives = <<"#SBATCH --mem=8G">>
    /\ runnerCfg = "enabled"
    /\ runnerRes = DefaultResources

\* C22: the rendered script holds the GPU line exactly when gpus > 0, the
\* memory line exactly when mem_gb > 0, the cpus-per-task line exactly when
\* cpus > 1, the partition line exactly when partition is non-empty and the
\* time line exactly when time_limit is non-empty, each with the row's value;
\* a row with every field zero or empty yields no line at all.
C22_DirectivesWhenSet ==
    [][\A j \in JobIds :
          Built(j) =>
             LET cfg == runnerRes'
                 d == script'.directives
             IN /\ (cfg.gpus > 0) <=> (\E n \in 0..9 : HasLine(d, "#SBATCH --gres=gpu:" \o str(n)))
                /\ (cfg.gpus > 0) => HasLine(d, "#SBATCH --gres=gpu:" \o str(cfg.gpus))
                /\ (cfg.mem_gb > 0) <=> (\E n \in 0..9 : HasLine(d, "#SBATCH --mem=" \o str(n) \o "G"))
                /\ (cfg.mem_gb > 0) => HasLine(d, "#SBATCH --mem=" \o str(cfg.mem_gb) \o "G")
                /\ (cfg.cpus > 1) <=> (\E n \in 0..9 : HasLine(d, "#SBATCH --cpus-per-task=" \o str(n)))
                /\ (cfg.cpus > 1) => HasLine(d, "#SBATCH --cpus-per-task=" \o str(cfg.cpus))
                /\ (cfg.partition # "") <=>
                      (\E p \in PartitionPosted : HasLine(d, "#SBATCH --partition=" \o p))
                /\ (cfg.partition # "") => HasLine(d, "#SBATCH --partition=" \o cfg.partition)
                /\ (cfg.time_limit # "") <=>
                      (\E t \in TimeLimitPosted : HasLine(d, "#SBATCH --time=" \o t))
                /\ (cfg.time_limit # "") => HasLine(d, "#SBATCH --time=" \o cfg.time_limit)
                /\ (cfg.gpus = 0 /\ cfg.mem_gb = 0 /\ cfg.cpus \in {0, 1}
                      /\ cfg.partition = "" /\ cfg.time_limit = "") => d = <<>>]_vars

\* a script was rendered from a row whose fields are all zero or empty, and
\* it holds no directive line
C22_Witness ==
    /\ sub["j1"].pc = "returned"
    /\ script.built
    /\ script.directives = <<>>
    /\ runnerRes = [partition |-> "", gpus |-> 0, cpus |-> 0, mem_gb |-> 0, time_limit |-> ""]
(* ------------------------------ submission ---------------------------- *)

\* the owner has no job in the ledger and a quota row that allows one
QuotaUnused(u) ==
    /\ \A k \in JobIds : jobs[k].exists => jobs[k].owner # u
    /\ \/ IsStaff(u)
       \/ /\ ~quota[u].is_disabled
          /\ quota[u].max_concurrent_jobs > 0
          /\ quota[u].max_queued_jobs > 0
          /\ quota[u].jobs_per_day > 0

\* a sequence text that is non-empty, within the size limit and accepted by
\* the runner's validate
GoodText(inp) ==
    inp.body > 0 /\ inp.body <= MAX_SEQUENCE_CHARS /\ ~inp.invalid

AdmissionMsgs == {MsgMaintenance, MsgRunnerDisabled} \cup QuotaMsgs

\* the submission carries no text but whitespace and no file
NoTextNoFiles(inp) == StrippedLen(inp) = 0 /\ ~inp.files

\* C25 as stated: every submission whose stripped sequences are empty and
\* whose payload has no files is rejected.
C25_RejectsNoTextNoFiles ==
    [][\A j \in JobIds :
          (Checked(j) /\ NoTextNoFiles(sub'[j].inp)) => sub'[j].pc = "raised"]_vars

\* C25, amended: a submission whose stripped sequences are empty and whose
\* payload has neither files nor params is rejected without a Job row being
\* created, with "No input provided." unless maintenance mode, the disabled
\* runner or the quota rejected it first; one that carries params is
\* admitted when those checks pass.
C25_RejectsNoTextNoFilesNoParams ==
    [][\A j \in JobIds :
          /\ (Checked(j) /\ NoTextNoFiles(sub'[j].inp) /\ ~sub'[j].inp.params)
                => /\ sub'[j].pc = "raised"
                   /\ sub'[j].error \in {MsgNoInput} \cup AdmissionMsgs
                   /\ (~maintenance /\ runnerCfg # "disabled" /\ QuotaUnused(sub'[j].owner))
                         => sub'[j].error = MsgNoInput
                   /\ jobs' = jobs
                   /\ workdir' = workdir
          /\ (Checked(j) /\ sub'[j].inp = ParamsOnly
                /\ ~maintenance /\ runnerCfg # "disabled" /\ QuotaUnused(sub'[j].owner))
                => sub'[j].pc = "admitted"
          /\ sub[j].pc = "raised" => (sub'[j] = sub[j] /\ jobs'[j] = jobs[j])]_vars

\* a text of whitespace alone, without files or params, was rejected with
\* "No input provided." and no row was created
C25_Witness ==
    /\ sub["j1"].pc = "raised"
    /\ sub["j1"].error = MsgNoInput
    /\ sub["j1"].inp.pad = 2
    /\ sub["j1"].inp.body = 0
    /\ ~jobs["j1"].exists

\* C29: once create_and_submit_job has returned or raised, a job row it
\* created is not PENDING with an empty slurm_job_id: it holds a scheduler
\* id and submitted_at, or it is FAILED with a message and completed_at.
C29_NoUnsubmittedPending ==
    \A j \in JobIds :
       (sub[j].pc \in {"returned", "raised"} /\ jobs[j].exists)
          => /\ ~(jobs[j].status = PENDING /\ jobs[j].slurm_job_id = "")
             /\ \/ jobs[j].slurm_job_id # "" /\ jobs[j].submitted_at # None
                \/ /\ jobs[j].status = FAILED
                   /\ jobs[j].error_message # ""
                   /\ jobs[j].completed_at # None

(* ------------------------------- polling ------------------------------ *)

\* the step in which a poll_jobs run evaluates its queryset
PollBegins == poll.pc = "idle" /\ poll'.pc = "iter"

\* C24 as stated: a poll_jobs run examines every job that is PENDING or
\* RUNNING when it evaluates its queryset.
C24_PollsEveryActiveJob ==
    [][PollBegins =>
          \A j \in JobIds :
             (jobs[j].exists /\ jobs[j].status \in {PENDING, RUNNING}) => poll'.rows[j].loaded]_vars

\* C24, amended: a poll_jobs run examines exactly the jobs that are PENDING
\* or RUNNING and hold a scheduler id when it evaluates its queryset, a job
\* with an empty slurm_job_id being skipped; every step of the run is one
\* check_status query for one job it still has to examine, and the run ends
\* with the query for the last of them.
C24_PollsEverySubmittedJob ==
    [][/\ PollBegins =>
            \A j \in JobIds :
               poll'.rows[j].loaded <=>
                  (jobs[j].exists /\ jobs[j].status \in {PENDING, RUNNING}
                     /\ jobs[j].slurm_job_id # "")
       /\ (poll.pc = "iter" /\ poll' # poll) =>
            \E j \in JobIds :
               /\ poll.rows[j].loaded
               /\ IF \E k \in JobIds \ {j} : poll.rows[k].loaded
                  THEN /\ poll'.pc = "iter"
                       /\ ~poll'.rows[j].loaded
                       /\ \A k \in JobIds \ {j} : poll'.rows[k] = poll.rows[k]
                  ELSE poll' = PollIdle]_vars

\* a run that began after the first job was left PENDING without a scheduler
\* id by a failed prepare_workdir examines the second job and not the first
C24_Witness ==
    /\ poll.pc = "iter"
    /\ poll.now > jobs["j1"].created_at
    /\ poll.rows["j2"].loaded
    /\ ~poll.rows["j1"].loaded
    /\ sub["j1"].pc = "raised"
    /\ jobs["j1"].exists
    /\ jobs["j1"].status = PENDING
    /\ jobs["j1"].slurm_job_id = ""
(* ------------------------------- quotas ------------------------------- *)

\* C26: an ordinary user never has more jobs RUNNING than the
\* max_concurrent_jobs of their quota row.
C26_RunningWithinLimit ==
    \A u \in Users :
       ~IsStaff(u) => CountStatus(u, RUNNING) <= quota[u].max_concurrent_jobs
\* C28: an ordinary user never has more jobs PENDING than the
\* max_queued_jobs of their quota row, concurrent submissions included.
C28_PendingWithinLimit ==
    \A u \in Users :
       ~IsStaff(u) => CountStatus(u, PENDING) <= quota[u].max_queued_jobs

(* --------------------------- console cancel --------------------------- *)

\* the step in which the console's cancel_job runs on the instance it was given
ConsoleCancels == req.kind = "bulk_cancel_jobs" /\ req'.kind = "none"

\* C27: cancel_job returns True exactly when the instance it is given is
\* PENDING or RUNNING with a non-empty slurm_job_id; it then issues one
\* scheduler cancel and leaves the job FAILED with the "Cancelled by admin"
\* message and completed_at set to the current time; otherwise it returns
\* False, makes no scheduler call and leaves the job as it was.
C27_ConsoleCancel ==
    [][ConsoleCancels =>
          LET j == req.job
              was == req.row.status \in {PENDING, RUNNING} /\ req.row.slurm_job_id # ""
          IN /\ ret'.job = j
             /\ ret'.value <=> was
             /\ was => /\ ret'.cancels = 1
                       /\ scancelled' = scancelled \cup {j}
                       /\ jobs'[j].status = FAILED
                       /\ jobs'[j].error_message = MsgCancelConsole
                       /\ jobs'[j].completed_at = now
                       /\ jobs'[j].slurm_job_id = jobs[j].slurm_job_id
                       /\ jobs'[j].submitted_at = jobs[j].submitted_at
             /\ ~was => /\ ret'.cancels = 0
                        /\ scancelled' = scancelled
                        /\ jobs' = jobs]_vars

\* a cancel of a submitted job has returned True after one scheduler cancel,
\* and the job is FAILED with the console's message
C27_Witness ==
    /\ ret.job = "j1"
    /\ ret.value
    /\ ret.cancels = 1
    /\ "j1" \in scancelled
    /\ jobs["j1"].status = FAILED
    /\ jobs["j1"].error_message = MsgCancelConsole
    /\ jobs["j1"].completed_at # None
(* ------------------------------ termination --------------------------- *)

\* C30: under repeated poller runs, a submitted job whose scheduler state
\* has settled, as completed, as failed, or as lost so that check_status
\* keeps answering UNKNOWN, eventually is COMPLETED or FAILED in the ledger.
C30_SubmittedJobsEnd ==
    \A j \in JobIds :
       (jobs[j].slurm_job_id # "" /\ sched[j] \in SchedSettled)
          ~> (jobs[j].status \in {COMPLETED, FAILED})

\* the scheduler lost a job before running it, and the poller has failed it
\* as stale
C30_Witness ==
    /\ sched["j1"] = "lost"
    /\ jobs["j1"].status = FAILED
    /\ jobs["j1"].error_message = MsgStale
    /\ jobs["j1"].completed_at # None
    /\ lastSeen["j1"] = None

====
